---- MODULE Spec2Model ----
(***************************************************************************)
(* Training platform: the session allocation engine of the training portal *)
(* (src/src/project/apps/workshops) and the portal reconciliation of the    *)
(* operator (src/operator/training_portal.py).                             *)
(*                                                                         *)
(* Times are in seconds.  A missing value (Python None / SQL NULL) is      *)
(* NoUser, NoToken, NoTime, NoSession or NoValue.                          *)
(***************************************************************************)
EXTENDS Integers, Sequences, FiniteSets, TLC

\* ------------------------------------------------------------------ bounds
NumUsers == 2
MaxCapacity == 2
MaxTally == 2
MaxTicks == 2
MaxValue == 3
MaxWorkshops == 1
MaxAttempts == 2
NumEnvironments == 2
MaxBlocks == 3
MaxItems == 2
MaxReferences == 2
SweepUsers == 1
SweepTally == 1

\* ------------------------------------------------- SessionState (models.py)
STARTING == 1
WAITING == 2
RUNNING == 3
STOPPING == 4
STOPPED == 5

SessionState == {STARTING, WAITING, RUNNING, STOPPING, STOPPED}

NoUser == 0
NoToken == 0
NoTime == -1
NoSession == 0

\* Session.mark_as_pending: the activation grace window, in seconds.
GraceSeconds == 60
\* Session.extend_time_remaining: the fixed increment and the default period.
ExtendSeconds == 300
DefaultPeriod == 300

Users == 1..NumUsers
\* The clock advances in steps of one grace window.
Tick == GraceSeconds
MaxTime == MaxTicks * Tick
\* Environment.duration: 0 (no limit) or a limit of two ticks.
Durations == {0, 2 * Tick}

VARIABLES
    environment,   \* the Environment row: capacity, initial, reserved, duration, tally
    session_set,   \* the Session rows of the environment, by creation index
    applications,  \* the indices of the sessions whose OAuth Application row exists
    now,           \* timezone.now()
    lock,          \* resources_lock: the requester inside a locked view, or NoUser
    request,       \* per requester: where its allocation request is, and its answer
    pending,       \* session creations requested and not yet materialized
    raised,        \* the last session operation ended with an exception
    plan,          \* capacity planning of one workshop entry: the input, then the plan
    portal,        \* the TrainingPortal resource: its spec, and whether it exists
    platform,      \* what the cluster holds besides: workshop definitions, system secrets
    cluster,       \* the objects of the cluster the reconciliation deals with
    handler        \* training_portal_create: where the pass is, and how it ended

engineVars == <<environment, session_set, applications, now, lock, request, pending, raised>>
planVars == <<plan>>
portalVars == <<portal, platform, cluster, handler>>

vars == <<engineVars, planVars, portalVars>>

\* ------------------------------------------------------- Session (models.py)
NewSession ==
    [state |-> STARTING, owner |-> NoUser, started |-> NoTime,
     expires |-> NoTime, token |-> NoToken, application |-> TRUE]

\* Session.is_available
is_available(s) == s.owner = NoUser /\ s.state \in {STARTING, WAITING}

\* Session.is_pending
is_pending(s) == s.owner # NoUser /\ s.state \in {STARTING, WAITING}

\* Session.is_allocated
is_allocated(s) == s.owner # NoUser /\ s.state # STOPPED

\* mark_as_pending that forgets the owner.
mark_as_pending_without_owner(s, user, token, t, d) ==
    [s EXCEPT !.started = t,
              !.token = IF s.token # NoToken THEN s.token ELSE token,
              !.expires = IF token # NoToken THEN t + GraceSeconds
                          ELSE IF d # 0 THEN t + d
                          ELSE s.expires]

\* mark_as_pending that gives a token holder the whole duration at once.
mark_as_pending_by_duration(s, user, token, t, d) ==
    [s EXCEPT !.owner = user,
              !.started = t,
              !.token = IF s.token # NoToken THEN s.token ELSE token,
              !.expires = IF d # 0 THEN t + d ELSE s.expires]

\* mark_as_pending that takes the token of every call.
mark_as_pending_overwriting_token(s, user, token, t, d) ==
    [s EXCEPT !.owner = user,
              !.started = t,
              !.token = IF token # NoToken THEN token ELSE s.token,
              !.expires = IF token # NoToken THEN t + GraceSeconds
                          ELSE IF d # 0 THEN t + d
                          ELSE s.expires]

\* Session.mark_as_pending(user, token) at time t, in an environment of duration d
mark_as_pending(s, user, token, t, d) ==
    [s EXCEPT !.owner = user,
              !.started = t,
              !.token = IF s.token # NoToken THEN s.token ELSE token,
              !.expires = IF token # NoToken THEN t + GraceSeconds
                          ELSE IF d # 0 THEN t + d
                          ELSE s.expires]

\* mark_as_running that leaves the start time as it was.
mark_as_running_keeps_started(s, user, t, d) ==
    [s EXCEPT !.owner = IF user # NoUser THEN user ELSE s.owner,
              !.state = RUNNING,
              !.expires = IF d # 0 THEN t + d ELSE NoTime]

\* Session.mark_as_running(user) at time t, in an environment of duration d
mark_as_running(s, user, t, d) ==
    [s EXCEPT !.owner = IF user # NoUser THEN user ELSE s.owner,
              !.state = RUNNING,
              !.started = t,
              !.expires = IF d # 0 THEN t + d ELSE NoTime]

\* mark_as_stopping that pulls the expiry and leaves the state.
mark_as_stopping_keeps_state(s, t) ==
    [s EXCEPT !.expires = t]

\* Session.mark_as_stopping() at time t
mark_as_stopping(s, t) ==
    [s EXCEPT !.state = STOPPING, !.expires = t]

\* mark_as_stopped that leaves the reference to the application in the row.
mark_as_stopped_keeps_application(s, t) ==
    [s EXCEPT !.state = STOPPED, !.expires = t]

\* Session.mark_as_stopped() at time t: the row as saved, before application.delete()
mark_as_stopped(s, t) ==
    [s EXCEPT !.state = STOPPED, !.expires = t, !.application = FALSE]

\* extend_time_remaining that advances the expiry by the period it was passed.
extend_time_remaining_by_period(s, period, t) ==
    IF s.expires # NoTime /\ s.state = RUNNING
       /\ s.expires - t > 0 /\ s.expires - t <= period
    THEN [s EXCEPT !.expires = s.expires + period]
    ELSE s

\* Session.extend_time_remaining(period) at time t
extend_time_remaining(s, period, t) ==
    IF s.expires # NoTime /\ s.state = RUNNING
       /\ s.expires - t > 0 /\ s.expires - t <= period
    THEN [s EXCEPT !.expires = s.expires + ExtendSeconds]
    ELSE s

\* --------------------------------------------------- Environment (models.py)
\* available_sessions without the owner filter.
available_sessions_any_owner(ss) ==
    {i \in DOMAIN ss : ss[i].state \in {STARTING, WAITING}}

\* Environment.available_sessions
available_sessions(ss) ==
    {i \in DOMAIN ss : ss[i].owner = NoUser /\ ss[i].state \in {STARTING, WAITING}}

\* Environment.available_session: sessions[0] of a query set with no ordering,
\* so any of the available sessions.
available_session(ss) == available_sessions(ss)

\* Environment.allocated_sessions
allocated_sessions(ss) ==
    {i \in DOMAIN ss : ss[i].state \in {STARTING, WAITING, RUNNING, STOPPING}
                       /\ ss[i].owner # NoUser}

\* allocated_session_for_user that leaves out the STOPPING sessions.
allocated_session_for_user_not_stopping(ss, user) ==
    {i \in DOMAIN ss : ss[i].state \in {STARTING, WAITING, RUNNING}
                       /\ ss[i].owner = user}

\* allocated_session_for_user that sees only the started sessions.
allocated_session_for_user_started(ss, user) ==
    {i \in DOMAIN ss : ss[i].state \in {RUNNING, STOPPING}
                       /\ ss[i].owner = user}

\* Environment.allocated_session_for_user: sessions[0] of the matching rows
allocated_session_for_user(ss, user) ==
    {i \in DOMAIN ss : ss[i].state \in {STARTING, WAITING, RUNNING, STOPPING}
                       /\ ss[i].owner = user}

\* active_sessions that leaves out the STOPPING sessions.
active_sessions_not_stopping(ss) ==
    {i \in DOMAIN ss : ss[i].state \in {STARTING, WAITING, RUNNING}}

\* Environment.active_sessions
active_sessions(ss) ==
    {i \in DOMAIN ss : ss[i].state \in {STARTING, WAITING, RUNNING, STOPPING}}

available_sessions_count(ss) == Cardinality(available_sessions(ss))
allocated_sessions_count(ss) == Cardinality(allocated_sessions(ss))
active_sessions_count(ss) == Cardinality(active_sessions(ss))

\* A specification of one subsystem leaves the others' variables at rest.
NoEngine ==
    /\ environment = [capacity |-> 0, reserved |-> 0, initial |-> 0, duration |-> 0,
                      tally |-> 0]
    /\ session_set = << >>
    /\ applications = {}
    /\ now = 0
    /\ lock = NoUser
    /\ request = [u \in Users |-> [pc |-> "idle", token |-> NoToken, result |-> NoSession]]
    /\ pending = 0
    /\ raised = FALSE

NoPlanning == plan = [phase |-> "none"]

NoPortal ==
    /\ portal = [exists |-> FALSE]
    /\ platform = [workshops |-> {}]
    /\ cluster = {}
    /\ handler = [pc |-> "none"]

\* ------------------------------------------------ allocation engine: actions
Idle == [pc |-> "idle", token |-> NoToken, result |-> NoSession]

\* The capacity plans an environment can carry: clamped by the portal
\* reconciliation, so 0 <= reserved <= initial <= capacity.
EnvironmentConfigs(maxCapacity) ==
    {e \in [capacity : 0..maxCapacity, reserved : 0..maxCapacity,
            initial : 0..maxCapacity, duration : Durations, tally : {0}] :
        e.reserved <= e.initial /\ e.initial <= e.capacity}

\* A new environment: no session yet, its initial sessions requested.
EngineInit(configs) ==
    /\ environment \in configs
    /\ session_set = << >>
    /\ applications = {}
    /\ now = 0
    /\ lock = NoUser
    /\ request = [u \in Users |-> Idle]
    /\ pending = environment.initial
    /\ raised = FALSE
    /\ NoPlanning
    /\ NoPortal

\* resources_lock: a request enters its view once the lock is free.  The web
\* view (environment) passes no token; the REST view (environment_request)
\* generates one for the request.
Acquire(u, token) ==
    /\ lock = NoUser
    /\ request[u].pc # "locked"
    /\ lock' = u
    /\ request' = [request EXCEPT ![u] = [pc |-> "locked", token |-> token,
                                          result |-> NoSession]]
    /\ UNCHANGED <<environment, session_set, applications, now, pending, raised>>
    /\ UNCHANGED <<planVars, portalVars>>

\* Replenishment after an assignment: one creation is requested when fewer than
\* reserved sessions stay available and capacity is left.
replenish(ss, p) ==
    IF available_sessions_count(ss) < environment.reserved
       /\ active_sessions_count(ss) + p < environment.capacity
    THEN p + 1
    ELSE p

\* retrieve_session_for_user(environment, user, token): the requester's own
\* session, else an available one assigned to it, else nothing.
retrieve_session_for_user(u, token, s) ==
    LET held == allocated_session_for_user(session_set, u) IN
    IF held # {}
    THEN /\ s \in held
         /\ UNCHANGED <<session_set, pending>>
    ELSE IF available_session(session_set) = {}
    THEN /\ s = NoSession
         /\ UNCHANGED <<session_set, pending>>
    ELSE /\ s \in available_session(session_set)
         /\ LET marked == IF token # NoToken
                          THEN mark_as_pending(session_set[s], u, token, now,
                                               environment.duration)
                          ELSE mark_as_running(session_set[s], u, now,
                                               environment.duration)
                ss == [session_set EXCEPT ![s] = marked]
            IN /\ session_set' = ss
               /\ pending' = replenish(ss, pending)

\* The body of the views environment and environment_request: the answer is the
\* session's name, or "session-unavailable" / 503 when there is none.  The lock
\* is released as the view returns.
Allocate(u) ==
    /\ lock = u
    /\ request[u].pc = "locked"
    /\ \E s \in (DOMAIN session_set) \cup {NoSession} :
          /\ retrieve_session_for_user(u, request[u].token, s)
          /\ request' = [request EXCEPT ![u] =
                            [pc |-> IF s = NoSession THEN "exhausted" ELSE "served",
                             token |-> request[u].token, result |-> s]]
    /\ lock' = NoUser
    /\ UNCHANGED <<environment, applications, now, raised>>
    /\ UNCHANGED <<planVars, portalVars>>

\* The response has reached the requester.
Close(u) ==
    /\ request[u].pc \in {"served", "exhausted"}
    /\ request' = [request EXCEPT ![u] = Idle]
    /\ UNCHANGED <<environment, session_set, applications, now, lock, pending, raised>>
    /\ UNCHANGED <<planVars, portalVars>>

\* Activation of a pending session by its token holder: the session starts.
Activate(s) ==
    /\ lock = NoUser
    /\ s \in DOMAIN session_set
    /\ is_pending(session_set[s])
    /\ session_set' = [session_set EXCEPT
                          ![s] = mark_as_running(@, NoUser, now, environment.duration)]
    /\ UNCHANGED <<environment, applications, now, lock, request, pending, raised>>
    /\ UNCHANGED <<planVars, portalVars>>

\* Explicit release, capacity reclaim or orphan timeout of a running session.
Release(s) ==
    /\ lock = NoUser
    /\ s \in DOMAIN session_set
    /\ session_set[s].state = RUNNING
    /\ session_set' = [session_set EXCEPT ![s] = mark_as_stopping(@, now)]
    /\ UNCHANGED <<environment, applications, now, lock, request, pending, raised>>
    /\ UNCHANGED <<planVars, portalVars>>

\* The sessions the expiry sweep stops: RUNNING and past their expiry.
expired(ss, t) ==
    {i \in DOMAIN ss : ss[i].state = RUNNING /\ ss[i].expires # NoTime
                       /\ ss[i].expires <= t}

\* sweep_expirations(): under the lock, every expired session is stopped.
Sweep ==
    /\ lock = NoUser
    /\ expired(session_set, now) # {}
    /\ session_set' = [i \in DOMAIN session_set |->
                          IF i \in expired(session_set, now)
                          THEN mark_as_stopping(session_set[i], now)
                          ELSE session_set[i]]
    /\ UNCHANGED <<environment, applications, now, lock, request, pending, raised>>
    /\ UNCHANGED <<planVars, portalVars>>

\* Anti-thrash guard: a session showing activity is extended.
Extend(s) ==
    /\ lock = NoUser
    /\ s \in DOMAIN session_set
    /\ extend_time_remaining(session_set[s], DefaultPeriod, now) # session_set[s]
    /\ session_set' = [session_set EXCEPT
                          ![s] = extend_time_remaining(@, DefaultPeriod, now)]
    /\ UNCHANGED <<environment, applications, now, lock, request, pending, raised>>
    /\ UNCHANGED <<planVars, portalVars>>

\* The workload controller confirms the teardown of a stopping session.
ConfirmTeardown(s) ==
    /\ s \in DOMAIN session_set
    /\ session_set[s].state = STOPPING
    /\ session_set' = [session_set EXCEPT ![s] = mark_as_stopped(@, now)]
    /\ applications' = applications \ {s}
    /\ raised' = ~session_set[s].application
    /\ UNCHANGED <<environment, now, lock, request, pending>>
    /\ UNCHANGED <<planVars, portalVars>>

\* Creation of a requested session that does not wait for the lock.
Materialize_outside_lock(maxTally) ==
    /\ pending > 0
    /\ environment.tally < maxTally
    /\ environment' = [environment EXCEPT !.tally = @ + 1]
    /\ session_set' = Append(session_set, NewSession)
    /\ applications' = applications \cup {environment.tally + 1}
    /\ pending' = pending - 1
    /\ UNCHANGED <<now, lock, request, raised>>
    /\ UNCHANGED <<planVars, portalVars>>

\* A requested session is created, under the lock of the allocation: the
\* tally is advanced and names the new session.
Materialize(maxTally) ==
    /\ lock = NoUser
    /\ pending > 0
    /\ environment.tally < maxTally
    /\ environment' = [environment EXCEPT !.tally = @ + 1]
    /\ session_set' = Append(session_set, NewSession)
    /\ applications' = applications \cup {environment.tally + 1}
    /\ pending' = pending - 1
    /\ UNCHANGED <<now, lock, request, raised>>
    /\ UNCHANGED <<planVars, portalVars>>

\* The workload of a starting session is up.
SessionReady(s) ==
    /\ s \in DOMAIN session_set
    /\ session_set[s].state = STARTING
    /\ session_set' = [session_set EXCEPT ![s].state = WAITING]
    /\ UNCHANGED <<environment, applications, now, lock, request, pending, raised>>
    /\ UNCHANGED <<planVars, portalVars>>

TickClock ==
    /\ now < MaxTime
    /\ now' = now + Tick
    /\ UNCHANGED <<environment, session_set, applications, lock, request, pending, raised>>
    /\ UNCHANGED <<planVars, portalVars>>

\* Requests are answered one after the other: a request enters when no answer
\* is outstanding.
Quiet == \A v \in Users : request[v].pc = "idle"

\* ---------------------------------------------- the pool (no clock)
\* The environment of the worked example: capacity 3, reserved 1, initial 1.
ScenarioConfigs ==
    {[capacity |-> 3, reserved |-> 1, initial |-> 1, duration |-> d, tally |-> 0] :
        d \in Durations}

\* No clock here: one workshop duration stands for all (the sweep's
\* specification has the clock and every duration).
Init ==
    EngineInit({e \in EnvironmentConfigs(MaxCapacity) \cup ScenarioConfigs : e.duration # 0})

Next ==
    \/ \E u \in Users, withToken \in BOOLEAN :
          Quiet /\ Acquire(u, IF withToken THEN u ELSE NoToken)
    \/ \E u \in Users : Allocate(u)
    \/ \E u \in Users : Close(u)
    \/ \E s \in 1..MaxTally : Activate(s)
    \/ \E s \in 1..MaxTally : Release(s)
    \/ \E s \in 1..MaxTally : ConfirmTeardown(s)
    \/ Materialize(MaxTally)
    \/ \E s \in 1..MaxTally : SessionReady(s)

Spec == Init /\ [][Next]_vars

\* ------------------------------------- a burst of requests against a fixed pool
\* K sessions are materialized and available, every requester is about to ask
\* once, and no session is created or stopped meanwhile.
InitBurst ==
    /\ \E k \in 0..MaxTally :
          /\ environment \in {[e EXCEPT !.tally = k] :
                                 e \in {c \in EnvironmentConfigs(MaxCapacity) :
                                           k <= c.capacity /\ c.initial <= k}}
          /\ session_set \in [1..k -> {NewSession, [NewSession EXCEPT !.state = WAITING]}]
          /\ applications = 1..k
    /\ now = 0
    /\ lock = NoUser
    /\ request = [u \in Users |-> Idle]
    /\ pending = 0
    /\ raised = FALSE
    /\ NoPlanning
    /\ NoPortal

NextBurst ==
    \/ \E u \in Users, withToken \in BOOLEAN :
          request[u].pc = "idle" /\ Acquire(u, IF withToken THEN u ELSE NoToken)
    \/ \E u \in Users : Allocate(u)

SpecBurst == InitBurst /\ [][NextBurst]_vars

\* ------------------------------------------- the pool with clock and sweep
InitSweep == EngineInit(EnvironmentConfigs(SweepTally))

NextSweep ==
    \/ \E u \in 1..SweepUsers, withToken \in BOOLEAN :
          Quiet /\ Acquire(u, IF withToken THEN u ELSE NoToken)
    \/ \E u \in 1..SweepUsers : Allocate(u)
    \/ \E u \in 1..SweepUsers : Close(u)
    \/ \E s \in 1..SweepTally : Activate(s)
    \/ \E s \in 1..SweepTally : Release(s)
    \/ Sweep
    \/ \E s \in 1..SweepTally : Extend(s)
    \/ \E s \in 1..SweepTally : ConfirmTeardown(s)
    \/ Materialize(SweepTally)
    \/ \E s \in 1..SweepTally : SessionReady(s)
    \/ TickClock

SpecSweep == InitSweep /\ [][NextSweep]_vars

\* ------------------------------------------- a burst with the lock relaxed
\* The same burst with no lock around the view: a request reads the session
\* it will take in one step and writes its claim in a later one, and other
\* requests may run in between.
Select(u, token) ==
    /\ request[u].pc = "idle"
    /\ LET held == allocated_session_for_user(session_set, u) IN
       \E s \in (DOMAIN session_set) \cup {NoSession} :
          /\ IF held # {} THEN s \in held
             ELSE IF available_session(session_set) = {} THEN s = NoSession
             ELSE s \in available_session(session_set)
          /\ request' = [request EXCEPT ![u] =
                            [pc |-> IF held # {} THEN "served"
                                    ELSE IF s = NoSession THEN "exhausted"
                                    ELSE "selected",
                             token |-> token, result |-> s]]
    /\ UNCHANGED <<environment, session_set, applications, now, lock, pending, raised>>
    /\ UNCHANGED <<planVars, portalVars>>

\* The claim is written: mark_as_pending or mark_as_running, then save().
WriteClaim(u) ==
    /\ request[u].pc = "selected"
    /\ LET s == request[u].result
           marked == IF request[u].token # NoToken
                     THEN mark_as_pending(session_set[s], u, request[u].token, now,
                                          environment.duration)
                     ELSE mark_as_running(session_set[s], u, now, environment.duration)
           ss == [session_set EXCEPT ![s] = marked]
       IN /\ session_set' = ss
          /\ pending' = replenish(ss, pending)
    /\ request' = [request EXCEPT ![u].pc = "served"]
    /\ UNCHANGED <<environment, applications, now, lock, raised>>
    /\ UNCHANGED <<planVars, portalVars>>

NextRelaxed ==
    \/ \E u \in Users, withToken \in BOOLEAN :
          Select(u, IF withToken THEN u ELSE NoToken)
    \/ \E u \in Users : WriteClaim(u)

SpecRelaxed == InitBurst /\ [][NextRelaxed]_vars

\* ------------------------------------------------ the lock of the views
\* Requests for several environments: the views environment,
\* environment_create and environment_request are all wrapped by the one
\* decorator resources_lock, before the view looks its environment up.  The
\* body of the view is left out: a request under the lock is answered.
EnvironmentNames == 1..NumEnvironments

NoRequest == [pc |-> "idle", token |-> NoToken, result |-> NoSession, name |-> 0]

InitLocks ==
    /\ request = [u \in Users |-> NoRequest]
    /\ lock = NoUser
    /\ environment = [capacity |-> 0, reserved |-> 0, initial |-> 0, duration |-> 0,
                      tally |-> 0]
    /\ session_set = << >>
    /\ applications = {}
    /\ now = 0
    /\ pending = 0
    /\ raised = FALSE
    /\ NoPlanning
    /\ NoPortal

\* A request for the environment called name arrives.
Arrive(u, name, token) ==
    /\ request[u].pc = "idle"
    /\ request' = [request EXCEPT ![u] = [pc |-> "waiting", token |-> token,
                                          result |-> NoSession, name |-> name]]
    /\ UNCHANGED <<environment, session_set, applications, now, lock, pending, raised>>
    /\ UNCHANGED <<planVars, portalVars>>

\* @resources_lock: the request enters the view once the lock is free.
Enter(u) ==
    /\ request[u].pc = "waiting"
    /\ lock = NoUser
    /\ lock' = u
    /\ request' = [request EXCEPT ![u].pc = "locked"]
    /\ UNCHANGED <<environment, session_set, applications, now, pending, raised>>
    /\ UNCHANGED <<planVars, portalVars>>

\* The view returns, with a session or without, and the lock is released.
Return(u, served) ==
    /\ request[u].pc = "locked"
    /\ lock = u
    /\ lock' = NoUser
    /\ request' = [request EXCEPT ![u].pc = IF served THEN "served" ELSE "exhausted"]
    /\ UNCHANGED <<environment, session_set, applications, now, pending, raised>>
    /\ UNCHANGED <<planVars, portalVars>>

\* The response has reached the requester.
Depart(u) ==
    /\ request[u].pc \in {"served", "exhausted"}
    /\ request' = [request EXCEPT ![u] = NoRequest]
    /\ UNCHANGED <<environment, session_set, applications, now, lock, pending, raised>>
    /\ UNCHANGED <<planVars, portalVars>>

NextLocks ==
    \/ \E u \in Users, name \in EnvironmentNames, withToken \in BOOLEAN :
          Arrive(u, name, IF withToken THEN u ELSE NoToken)
    \/ \E u \in Users : Enter(u)
    \/ \E u \in Users, served \in BOOLEAN : Return(u, served)
    \/ \E u \in Users : Depart(u)

SpecLocks == InitLocks /\ [][NextLocks]_vars

\* ----------------------------------- the session operations, called freely
\* One session row, and any caller: each operation of Session is applied in
\* any state, with any argument.
InitOps ==
    /\ environment \in {[e EXCEPT !.tally = 1] :
                           e \in {c \in EnvironmentConfigs(1) : c.initial = 1}}
    /\ session_set = <<NewSession>>
    /\ applications = {1}
    /\ now = 0
    /\ lock = NoUser
    /\ request = [u \in Users |-> Idle]
    /\ pending = 0
    /\ raised = FALSE
    /\ NoPlanning
    /\ NoPortal

OpMarkAsPending(user, token) ==
    /\ session_set' = [session_set EXCEPT
                          ![1] = mark_as_pending(@, user, token, now, environment.duration)]
    /\ raised' = FALSE
    /\ UNCHANGED <<environment, applications, now, lock, request, pending>>
    /\ UNCHANGED <<planVars, portalVars>>

OpMarkAsRunning(user) ==
    /\ session_set' = [session_set EXCEPT
                          ![1] = mark_as_running(@, user, now, environment.duration)]
    /\ raised' = FALSE
    /\ UNCHANGED <<environment, applications, now, lock, request, pending>>
    /\ UNCHANGED <<planVars, portalVars>>

OpMarkAsStopping ==
    /\ session_set' = [session_set EXCEPT ![1] = mark_as_stopping(@, now)]
    /\ raised' = FALSE
    /\ UNCHANGED <<environment, applications, now, lock, request, pending>>
    /\ UNCHANGED <<planVars, portalVars>>

\* The row is saved, then application.delete() runs: on a row with no
\* application it raises.
OpMarkAsStopped ==
    /\ session_set' = [session_set EXCEPT ![1] = mark_as_stopped(@, now)]
    /\ applications' = IF session_set[1].application THEN applications \ {1}
                       ELSE applications
    /\ raised' = ~session_set[1].application
    /\ UNCHANGED <<environment, now, lock, request, pending>>
    /\ UNCHANGED <<planVars, portalVars>>

OpExtendTimeRemaining(period) ==
    /\ session_set' = [session_set EXCEPT ![1] = extend_time_remaining(@, period, now)]
    /\ raised' = FALSE
    /\ UNCHANGED <<environment, applications, now, lock, request, pending>>
    /\ UNCHANGED <<planVars, portalVars>>

NextOps ==
    \/ \E user \in Users, token \in Users \cup {NoToken} : OpMarkAsPending(user, token)
    \/ \E user \in Users \cup {NoUser} : OpMarkAsRunning(user)
    \/ OpMarkAsStopping
    \/ OpMarkAsStopped
    \/ \E period \in {Tick, DefaultPeriod} : OpExtendTimeRemaining(period)
    \/ TickClock

SpecOps == InitOps /\ [][NextOps]_vars

\* ------------------------------ capacity planning (training_portal_create)
\* A key of the resource's spec: << >> when absent, <<v>> when set to v.
Optional(S) == {<< >>} \cup {<<v>> : v \in S}

\* dict.get(key, default)
get(key, default) == IF key = << >> THEN default ELSE key[1]

max(a, b) == IF a >= b THEN a ELSE b
min(a, b) == IF a <= b THEN a ELSE b

\* spec.portal.sessions.maximum, default 0
sessions_maximum(p) == get(p.sessions_maximum, 0)

default_capacity(p) == get(p.capacity, sessions_maximum(p))
default_reserved(p) == get(p.reserved, 1)
default_initial(p) == get(p.initial, default_reserved(p))

\* The values of a workshop entry w of portal p before clamping: the entry's
\* own when it sets its capacity, the portal's otherwise.
workshop_capacity(p, w) ==
    IF w.capacity # << >> THEN get(w.capacity, default_capacity(p))
    ELSE default_capacity(p)

workshop_reserved(p, w) ==
    IF w.capacity # << >> THEN get(w.reserved, workshop_capacity(p, w))
    ELSE default_reserved(p)

workshop_initial(p, w) ==
    IF w.capacity # << >> THEN get(w.initial, workshop_reserved(p, w))
    ELSE default_initial(p)

\* clamp that forgets to cap reserved by the capacity.
clamp_reserved_uncapped(capacity, reserved, initial) ==
    LET c == max(0, capacity)
        r == max(0, reserved)
        i == max(0, min(initial, c))
    IN [capacity |-> c, reserved |-> r, initial |-> IF i < r THEN r ELSE i]

\* The clamping of the three values.
clamp(capacity, reserved, initial) ==
    LET c == max(0, capacity)
        r == max(0, min(reserved, c))
        i == max(0, min(initial, c))
    IN [capacity |-> c, reserved |-> r, initial |-> IF i < r THEN r ELSE i]

\* The entry of status.environments for workshop entry w of portal p.
capacity_plan(p, w) ==
    clamp(workshop_capacity(p, w), workshop_reserved(p, w), workshop_initial(p, w))

\* The integers a spec may give: negative, zero, and up to MaxValue.
Values == (0 - 1)..MaxValue

PortalSettings ==
    [sessions_maximum : Optional(Values), capacity : Optional(Values),
     reserved : Optional(Values), initial : Optional(Values)]

WorkshopEntries ==
    [capacity : Optional(Values), reserved : Optional(Values),
     initial : Optional(Values)]

InitPlan ==
    /\ plan \in [phase : {"input"}, portal : PortalSettings, workshop : WorkshopEntries]
    /\ NoEngine
    /\ NoPortal

\* One turn of the loop over spec.workshops: the plan of the entry is emitted.
PlanWorkshop ==
    /\ plan.phase = "input"
    /\ plan' = [phase |-> "planned", portal |-> plan.portal, workshop |-> plan.workshop,
                environment |-> capacity_plan(plan.portal, plan.workshop)]
    /\ UNCHANGED <<engineVars, portalVars>>

NextPlan == PlanWorkshop

SpecPlan == InitPlan /\ [][NextPlan]_vars

\* --------------------------- portal reconciliation (training_portal_create)
\* Names are pairs: a stem and a position (0 when the name has none).
NoName == <<"", 0>>
portal_name == <<"portal", 0>>
\* f"{portal_name}-ui"
portal_namespace == <<"portal-ui", 0>>
\* f"{portal_name}-w{n+1:02}", for the entry at position n of spec.workshops
environment_name(n) == <<"portal-w", n>>

\* An object of the cluster.  owner is its ownership stamp (NoName: none); by
\* records who submitted it: the portal reconciliation, the environment
\* reconciliation, or someone else.
Object(kind, name, namespace, by) ==
    [kind |-> kind, name |-> name, namespace |-> namespace, owner |-> NoName, by |-> by]

\* adopt that leaves the object without a stamp.
adopt_nothing(obj) == obj

\* kopf.adopt(body): the object is stamped with the resource being reconciled.
adopt(obj) == [obj EXCEPT !.owner = portal_name]

NoObject == Object("", NoName, NoName, "")

\* The objects created after the environments, in the order of the code:
\* namespaced ones in the portal namespace, cluster ones outside, and whether
\* kopf.adopt is applied to the body.
PortalObjects ==
    << [kind |-> "Secret", name |-> <<"pull-secret", 0>>, namespaced |-> TRUE, adopted |-> FALSE],
       [kind |-> "ServiceAccount", name |-> <<"eduk8s-portal", 0>>, namespaced |-> TRUE, adopted |-> FALSE],
       [kind |-> "PodSecurityPolicy", name |-> <<"aaa-portal-ui", 0>>, namespaced |-> FALSE, adopted |-> TRUE],
       [kind |-> "ClusterRole", name |-> <<"portal-ui-policy", 0>>, namespaced |-> FALSE, adopted |-> TRUE],
       [kind |-> "ClusterRole", name |-> <<"portal-ui-eduk8s", 0>>, namespaced |-> FALSE, adopted |-> TRUE],
       [kind |-> "ClusterRoleBinding", name |-> <<"portal-ui-eduk8s", 0>>, namespaced |-> FALSE, adopted |-> TRUE],
       [kind |-> "RoleBinding", name |-> <<"eduk8s-portal-policy", 0>>, namespaced |-> TRUE, adopted |-> TRUE],
       [kind |-> "PersistentVolumeClaim", name |-> <<"eduk8s-portal", 0>>, namespaced |-> TRUE, adopted |-> FALSE],
       [kind |-> "ConfigMap", name |-> <<"eduk8s-portal", 0>>, namespaced |-> TRUE, adopted |-> FALSE],
       [kind |-> "Deployment", name |-> <<"eduk8s-portal", 0>>, namespaced |-> TRUE, adopted |-> FALSE],
       [kind |-> "Service", name |-> <<"eduk8s-portal", 0>>, namespaced |-> TRUE, adopted |-> FALSE],
       [kind |-> "Ingress", name |-> <<"eduk8s-portal", 0>>, namespaced |-> TRUE, adopted |-> FALSE] >>

\* The body submitted for row k of PortalObjects.
portal_object(k) ==
    LET row == PortalObjects[k]
        body == Object(row.kind, row.name,
                       IF row.namespaced THEN portal_namespace ELSE NoName, "portal")
    IN IF row.adopted THEN adopt(body) ELSE body

WorkshopNames == 1..MaxWorkshops

RECURSIVE SeqsUpTo(_, _)
SeqsUpTo(S, n) ==
    IF n = 0 THEN {<< >>}
    ELSE SeqsUpTo(S, n - 1) \cup {Append(q, x) : q \in {r \in SeqsUpTo(S, n - 1) : Len(r) = n - 1}, x \in S}

SecretStates == {"absent", "invalid", "valid"}

\* A pass of the handler at step pc.  created holds the bodies the pass has
\* submitted so far, previous the error the pass before it ended with;
\* ingress_protocol starts as "http".
Pass(pc, attempts, previous) ==
    [pc |-> pc, n |-> 0, error |-> "", collision |-> NoObject, listed |-> {},
     attempts |-> attempts, url |-> "", environments |-> << >>,
     created |-> {}, previous |-> previous, ingress_protocol |-> "http"]

\* The pass ends with an exception (kopf.TemporaryError, or the ApiException
\* of a call): kopf runs the handler again later.
failed(error, collision) ==
    [handler EXCEPT !.pc = "failed", !.error = error, !.collision = collision]

at(pc) == [handler EXCEPT !.pc = pc]

\* The namespaces somebody else left behind: of a prior deployment still
\* being deleted.
StaleNamespaces ==
    {Object("Namespace", n, NoName, "other") :
        n \in {portal_namespace} \cup {environment_name(i) : i \in 1..MaxWorkshops}}

InitPortal ==
    /\ portal \in [exists : {TRUE},
                   workshops : {q \in SeqsUpTo(WorkshopNames, MaxWorkshops) :
                                   \A i \in DOMAIN q : q[i] = i},
                   ingress_secret : BOOLEAN,
                   pull_secret : BOOLEAN]
    /\ platform \in [workshops : SUBSET WorkshopNames,
                     tls : SecretStates,
                     pull : SecretStates,
                     delete_error : {""}]
    /\ (~portal.ingress_secret => platform.tls = "absent")
    /\ (~portal.pull_secret => platform.pull = "absent")
    /\ platform.workshops \subseteq DOMAIN portal.workshops
    /\ cluster \in {{}} \cup {{o} : o \in {x \in StaleNamespaces :
                                           x.name[2] \in {0} \cup DOMAIN portal.workshops}}
    /\ handler = Pass("idle", 0, "")
    /\ NoEngine
    /\ NoPlanning

present(kind, name, namespace) ==
    {o \in cluster : o.kind = kind /\ o.name = name /\ o.namespace = namespace}

\* A create call of the API: the object is stored and the pass goes on at
\* next, or one of that kind, namespace and name exists and the call raises
\* 409, which ends the pass.
create(obj, next) ==
    IF present(obj.kind, obj.name, obj.namespace) # {}
    THEN /\ handler' = failed("already-exists",
                              CHOOSE o \in present(obj.kind, obj.name, obj.namespace) : TRUE)
         /\ UNCHANGED cluster
    ELSE /\ cluster' = cluster \cup {obj}
         /\ handler' = [next EXCEPT !.created = @ \cup {obj}]

\* kopf calls the handler: for the creation event, and again after a pass
\* that ended with an error.
StartPass ==
    /\ portal.exists
    /\ handler.pc \in {"idle", "failed"}
    /\ handler.attempts < MaxAttempts
    /\ handler' = Pass("workshops", handler.attempts + 1, handler.error)
    /\ UNCHANGED <<portal, platform, cluster>>
    /\ UNCHANGED <<engineVars, planVars>>

\* The check of the workshops that lets every pass through.
ValidateWorkshops_unchecked ==
    /\ handler.pc = "workshops"
    /\ handler' = at("preflight")
    /\ UNCHANGED <<portal, platform, cluster>>
    /\ UNCHANGED <<engineVars, planVars>>

\* Every workshop of spec.workshops must exist.
ValidateWorkshops ==
    /\ handler.pc = "workshops"
    /\ handler' = IF \A i \in DOMAIN portal.workshops :
                        portal.workshops[i] \in platform.workshops
                  THEN at("preflight")
                  ELSE failed("workshop-missing", NoObject)
    /\ UNCHANGED <<portal, platform, cluster>>
    /\ UNCHANGED <<engineVars, planVars>>

\* The namespaces needed, with those of the environments named after their workshops.
required_namespaces_by_workshop ==
    {portal_namespace}
        \cup {environment_name(portal.workshops[i]) : i \in DOMAIN portal.workshops}

\* The namespaces the portal needs: its own, and one per workshop reference,
\* named by the reference's position.
required_namespaces ==
    {portal_namespace} \cup {environment_name(i) : i \in DOMAIN portal.workshops}

\* The pre-flight check that looks at the portal namespace only.
PreflightNamespaces_portal_only ==
    /\ handler.pc = "preflight"
    /\ handler' = IF present("Namespace", portal_namespace, NoName) = {} THEN at("tls")
                  ELSE failed("namespace-exists",
                              CHOOSE o \in present("Namespace", portal_namespace, NoName) : TRUE)
    /\ UNCHANGED <<portal, platform, cluster>>
    /\ UNCHANGED <<engineVars, planVars>>

\* None of the namespaces needed may exist.
PreflightNamespaces ==
    /\ handler.pc = "preflight"
    /\ LET found == {o \in cluster : o.kind = "Namespace" /\ o.name \in required_namespaces}
           first == CHOOSE o \in found : \A x \in found : o.name[2] <= x.name[2]
       IN handler' = IF found = {} THEN at("tls")
                     ELSE failed("namespace-exists", first)
    /\ UNCHANGED <<portal, platform, cluster>>
    /\ UNCHANGED <<engineVars, planVars>>

\* The check of the ingress secret that takes any secret it finds.
CheckIngressSecret_unvalidated ==
    /\ handler.pc = "tls"
    /\ handler' = IF ~portal.ingress_secret THEN at("pull")
                  ELSE IF platform.tls = "absent" THEN failed("tls-missing", NoObject)
                  ELSE [at("pull") EXCEPT !.ingress_protocol = "https"]
    /\ UNCHANGED <<portal, platform, cluster>>
    /\ UNCHANGED <<engineVars, planVars>>

\* The TLS secret check that copies a valid secret at once.
CheckIngressSecret_copying ==
    /\ handler.pc = "tls"
    /\ handler' = IF ~portal.ingress_secret THEN at("pull")
                  ELSE IF platform.tls = "absent" THEN failed("tls-missing", NoObject)
                  ELSE IF platform.tls = "invalid" THEN failed("tls-invalid", NoObject)
                  ELSE [at("pull") EXCEPT
                           !.ingress_protocol = "https",
                           !.created = @ \cup {Object("Secret", <<"tls-secret", 0>>,
                                                      portal_namespace, "portal")}]
    /\ cluster' = IF portal.ingress_secret /\ platform.tls = "valid"
                  THEN cluster \cup {Object("Secret", <<"tls-secret", 0>>,
                                            portal_namespace, "portal")}
                  ELSE cluster
    /\ UNCHANGED <<portal, platform>>
    /\ UNCHANGED <<engineVars, planVars>>

\* The TLS secret named for the ingress must be in the system namespace, and
\* valid (of type kubernetes.io/tls, with tls.crt and tls.key): only then is
\* the protocol https.
CheckIngressSecret ==
    /\ handler.pc = "tls"
    /\ handler' = IF ~portal.ingress_secret THEN at("pull")
                  ELSE IF platform.tls = "absent" THEN failed("tls-missing", NoObject)
                  ELSE IF platform.tls = "invalid" THEN failed("tls-invalid", NoObject)
                  ELSE [at("pull") EXCEPT !.ingress_protocol = "https"]
    /\ UNCHANGED <<portal, platform, cluster>>
    /\ UNCHANGED <<engineVars, planVars>>

\* How each way a pass ends is raised: as kopf.TemporaryError by the handler
\* itself, or as the exception of an API call passing through it. The handler
\* raises no kopf.PermanentError.
error_kind(error) ==
    IF error = "" THEN "none"
    ELSE IF error \in {"workshop-missing", "namespace-exists", "tls-missing",
                       "tls-invalid", "pull-missing", "pull-invalid"}
         THEN "temporary"
    ELSE "exception"

\* The pull secret check without the look at type and data.
CheckPullSecret_unvalidated ==
    /\ handler.pc = "pull"
    /\ handler' = IF ~portal.pull_secret THEN at("namespace")
                  ELSE IF platform.pull = "absent" THEN failed("pull-missing", NoObject)
                  ELSE at("namespace")
    /\ UNCHANGED <<portal, platform, cluster>>
    /\ UNCHANGED <<engineVars, planVars>>

\* The image pull secret of the profile must be in the system namespace, and valid.
CheckPullSecret ==
    /\ handler.pc = "pull"
    /\ handler' = IF ~portal.pull_secret THEN at("namespace")
                  ELSE IF platform.pull = "absent" THEN failed("pull-missing", NoObject)
                  ELSE IF platform.pull = "invalid" THEN failed("pull-invalid", NoObject)
                  ELSE at("namespace")
    /\ UNCHANGED <<portal, platform, cluster>>
    /\ UNCHANGED <<engineVars, planVars>>

\* The portal namespace, a child of the portal.
CreateNamespace ==
    /\ handler.pc = "namespace"
    /\ create(adopt(Object("Namespace", portal_namespace, NoName, "portal")),
              at("list-LimitRange"))
    /\ UNCHANGED <<portal, platform>>
    /\ UNCHANGED <<engineVars, planVars>>

LimitKinds == {"LimitRange", "ResourceQuota"}

\* list_namespaced_limit_range / list_namespaced_resource_quota
ListLimits(kind) ==
    /\ handler.pc = IF kind = "LimitRange" THEN "list-LimitRange" ELSE "list-ResourceQuota"
    /\ handler' = [handler EXCEPT
                      !.pc = IF kind = "LimitRange" THEN "delete-LimitRange"
                             ELSE "delete-ResourceQuota",
                      !.listed = {o \in cluster : o.kind = kind
                                                  /\ o.namespace = portal_namespace}]
    /\ UNCHANGED <<portal, platform, cluster>>
    /\ UNCHANGED <<engineVars, planVars>>

\* The listed items are deleted: one that is gone by then makes the call raise 404.
DeleteLimits(kind) ==
    /\ handler.pc = IF kind = "LimitRange" THEN "delete-LimitRange" ELSE "delete-ResourceQuota"
    /\ IF handler.listed \subseteq cluster
       THEN /\ cluster' = cluster \ handler.listed
            /\ handler' = [handler EXCEPT
                              !.pc = IF kind = "LimitRange" THEN "list-ResourceQuota"
                                     ELSE "tls-copy",
                              !.listed = {}]
       ELSE /\ cluster' = cluster
            /\ handler' = [failed("not-found", NoObject) EXCEPT !.listed = {}]
    /\ UNCHANGED <<portal, platform>>
    /\ UNCHANGED <<engineVars, planVars>>

\* The TLS secret is copied into the portal namespace.
CopyTlsSecret ==
    /\ handler.pc = "tls-copy"
    /\ IF portal.ingress_secret
       THEN create(Object("Secret", <<"tls-secret", 0>>, portal_namespace, "portal"),
                   [at("environments") EXCEPT !.n = 1])
       ELSE /\ handler' = [at("environments") EXCEPT !.n = 1]
            /\ UNCHANGED cluster
    /\ UNCHANGED <<portal, platform>>
    /\ UNCHANGED <<engineVars, planVars>>

\* One turn of the loop over spec.workshops: the environment of entry n, a
\* child of the portal, and its entry in the status.
CreateEnvironment ==
    /\ handler.pc = "environments"
    /\ handler.n <= Len(portal.workshops)
    /\ create(adopt(Object("WorkshopEnvironment", environment_name(handler.n), NoName, "portal")),
              [handler EXCEPT !.n = @ + 1,
                              !.environments = Append(@, environment_name(handler.n))])
    /\ UNCHANGED <<portal, platform>>
    /\ UNCHANGED <<engineVars, planVars>>

\* The loop over spec.workshops is over.
EnvironmentsDone ==
    /\ handler.pc = "environments"
    /\ handler.n > Len(portal.workshops)
    /\ handler' = [at("objects") EXCEPT !.n = 1]
    /\ UNCHANGED <<portal, platform, cluster>>
    /\ UNCHANGED <<engineVars, planVars>>

\* The next object of the front end; the pull secret only when one is named.
CreateObject ==
    /\ handler.pc = "objects"
    /\ handler.n <= Len(PortalObjects)
    /\ IF PortalObjects[handler.n].kind = "Secret" /\ ~portal.pull_secret
       THEN /\ handler' = [handler EXCEPT !.n = @ + 1]
            /\ UNCHANGED cluster
       ELSE create(portal_object(handler.n), [handler EXCEPT !.n = @ + 1])
    /\ UNCHANGED <<portal, platform>>
    /\ UNCHANGED <<engineVars, planVars>>

\* The handler returns the status: the URL has the protocol of the pass.
ReportStatus ==
    /\ handler.pc = "objects"
    /\ handler.n > Len(PortalObjects)
    /\ handler' = [handler EXCEPT !.pc = "done",
                                  !.url = handler.ingress_protocol]
    /\ UNCHANGED <<portal, platform, cluster>>
    /\ UNCHANGED <<engineVars, planVars>>

\* A call of the API fails for a reason of the cluster's: the exception ends the pass.
ApiFailure ==
    /\ handler.pc \in {"workshops", "preflight", "namespace", "list-LimitRange", "list-ResourceQuota", "tls-copy",
                       "environments", "objects"}
    /\ handler' = failed("api-error", NoObject)
    /\ UNCHANGED <<portal, platform, cluster>>
    /\ UNCHANGED <<engineVars, planVars>>

\* The cluster's templates add a limit range or a quota to the new namespace.
InjectLimits(kind) ==
    /\ handler.pc \in {"list-LimitRange", "list-ResourceQuota"}
    /\ present("Namespace", portal_namespace, NoName) # {}
    /\ present(kind, <<"default", 0>>, portal_namespace) = {}
    /\ cluster' = cluster \cup {Object(kind, <<"default", 0>>, portal_namespace, "other")}
    /\ UNCHANGED <<portal, platform, handler>>
    /\ UNCHANGED <<engineVars, planVars>>

\* Somebody else deletes a limit range or a quota.
RemoveLimits(kind) ==
    /\ present(kind, <<"default", 0>>, portal_namespace) # {}
    /\ cluster' = cluster \ present(kind, <<"default", 0>>, portal_namespace)
    /\ UNCHANGED <<portal, platform, handler>>
    /\ UNCHANGED <<engineVars, planVars>>

\* A workshop definition the portal names is applied to the cluster.
DefineWorkshop(w) ==
    /\ w \notin platform.workshops
    /\ \E i \in DOMAIN portal.workshops : portal.workshops[i] = w
    /\ platform' = [platform EXCEPT !.workshops = @ \cup {w}]
    /\ UNCHANGED <<portal, cluster, handler>>
    /\ UNCHANGED <<engineVars, planVars>>

\* A system secret is provided, or repaired.
ProvideSecret(which) ==
    /\ IF which = "tls" THEN portal.ingress_secret /\ platform.tls # "valid"
       ELSE portal.pull_secret /\ platform.pull # "valid"
    /\ platform' = IF which = "tls" THEN [platform EXCEPT !.tls = "valid"]
                   ELSE [platform EXCEPT !.pull = "valid"]
    /\ UNCHANGED <<portal, cluster, handler>>
    /\ UNCHANGED <<engineVars, planVars>>

\* A namespace left behind by a prior deployment is gone at last.
StaleNamespaceGone ==
    /\ \E o \in cluster :
          /\ o \in StaleNamespaces
          /\ cluster' = cluster \ {o}
    /\ UNCHANGED <<portal, platform, handler>>
    /\ UNCHANGED <<engineVars, planVars>>

\* workshop_environment_create: the namespace of an environment, a child of
\* the environment.
EnvironmentNamespace(n) ==
    /\ present("WorkshopEnvironment", environment_name(n), NoName) # {}
    /\ present("Namespace", environment_name(n), NoName) = {}
    /\ cluster' = cluster \cup
          {[Object("Namespace", environment_name(n), NoName, "environment")
               EXCEPT !.owner = environment_name(n)]}
    /\ UNCHANGED <<portal, platform, handler>>
    /\ UNCHANGED <<engineVars, planVars>>

\* What a deletion handler leaves: the objects of the cluster, and the error
\* it raised ("": none).
Outcome(objects, error) == [cluster |-> objects, error |-> error]

\* A deletion handler that removes the contents of the portal namespace itself.
training_portal_delete_sweeping(objects) ==
    Outcome({o \in objects : o.namespace # portal_namespace}, "")

\* training_portal_delete: pass.
training_portal_delete(objects) == Outcome(objects, "")

\* workshop_environment_delete: pass.
workshop_environment_delete(objects) == Outcome(objects, "")

\* The platform's record of a deletion handler's error.
noted(outcome) ==
    [platform EXCEPT !.delete_error = IF outcome.error # "" THEN outcome.error ELSE @]

\* The portal is deleted: its deletion handler runs, then the portal is gone.
DeletePortal ==
    /\ portal.exists
    /\ handler.pc \in {"failed", "done"}
    /\ portal' = [portal EXCEPT !.exists = FALSE]
    /\ cluster' = training_portal_delete(cluster).cluster
    /\ platform' = noted(training_portal_delete(cluster))
    /\ UNCHANGED handler
    /\ UNCHANGED <<engineVars, planVars>>

\* An environment is deleted by hand: its deletion handler runs, then the
\* environment is gone.
DeleteEnvironment(n) ==
    /\ present("WorkshopEnvironment", environment_name(n), NoName) # {}
    /\ handler.pc \in {"failed", "done"}
    /\ cluster' = workshop_environment_delete(cluster).cluster
                     \ present("WorkshopEnvironment", environment_name(n), NoName)
    /\ platform' = noted(workshop_environment_delete(cluster))
    /\ UNCHANGED <<portal, handler>>
    /\ UNCHANGED <<engineVars, planVars>>

\* The objects whose stamp names a parent that is gone.
orphans ==
    {o \in cluster :
        \/ o.owner = portal_name /\ ~portal.exists
        \/ /\ o.owner # NoName
           /\ o.owner # portal_name
           /\ present("WorkshopEnvironment", o.owner, NoName) = {}}

\* A pass of the platform's garbage collector removes every orphan; a
\* namespace goes with everything in it, and an environment's deletion
\* handler runs first.  The orphans this pass makes are for the next one.
CollectGarbage ==
    /\ orphans # {}
    /\ LET outcome == IF \E o \in orphans : o.kind = "WorkshopEnvironment"
                      THEN workshop_environment_delete(cluster)
                      ELSE Outcome(cluster, "")
       IN /\ cluster' = {x \in outcome.cluster :
                            /\ x \notin orphans
                            /\ ~\E o \in orphans :
                                   o.kind = "Namespace" /\ x.namespace = o.name}
          /\ platform' = noted(outcome)
    /\ UNCHANGED <<portal, handler>>
    /\ UNCHANGED <<engineVars, planVars>>

NextPortal ==
    \/ StartPass
    \/ ValidateWorkshops
    \/ PreflightNamespaces
    \/ CheckIngressSecret
    \/ CheckPullSecret
    \/ CreateNamespace
    \/ \E kind \in LimitKinds : ListLimits(kind)
    \/ \E kind \in LimitKinds : DeleteLimits(kind)
    \/ CopyTlsSecret
    \/ CreateEnvironment
    \/ EnvironmentsDone
    \/ CreateObject
    \/ ReportStatus
    \/ ApiFailure
    \/ \E kind \in LimitKinds : InjectLimits(kind)
    \/ \E kind \in LimitKinds : RemoveLimits(kind)
    \/ \E w \in WorkshopNames : DefineWorkshop(w)
    \/ \E which \in {"tls", "pull"} : ProvideSecret(which)
    \/ StaleNamespaceGone
    \/ \E n \in 1..MaxWorkshops : EnvironmentNamespace(n)
    \/ DeletePortal
    \/ \E n \in 1..MaxWorkshops : DeleteEnvironment(n)
    \/ CollectGarbage

SpecPortal == InitPortal /\ [][NextPortal]_vars

\* -------------- environment reconciliation (workshop_environment_create)
\* The pass over one WorkshopEnvironment: the one of the portal's first
\* workshop entry.  Its namespace carries its name.
workshop_name == 1
workshop_namespace == environment_name(1)

\* kopf.adopt(body) in the environment handler: the stamp names the environment.
adopt_environment(obj) == [obj EXCEPT !.owner = workshop_namespace]

\* The objects created after the namespace, in the order of the code: whether
\* the object is in the workshop namespace, whether kopf.adopt is applied to
\* the body, and whether it is submitted with create_from_dict.
EnvironmentObjects ==
    << [kind |-> "ConfigMap", name |-> <<"workshop", 0>>, namespaced |-> TRUE,
        adopted |-> TRUE, from_dict |-> FALSE],
       [kind |-> "ClusterRole", name |-> <<"web-console", 1>>, namespaced |-> FALSE,
        adopted |-> TRUE, from_dict |-> FALSE],
       [kind |-> "PodSecurityPolicy", name |-> <<"aaa-nonroot-security-policy", 1>>,
        namespaced |-> FALSE, adopted |-> TRUE, from_dict |-> TRUE],
       [kind |-> "ClusterRole", name |-> <<"nonroot-security-policy", 1>>,
        namespaced |-> FALSE, adopted |-> TRUE, from_dict |-> TRUE],
       [kind |-> "ServiceAccount", name |-> <<"services", 0>>, namespaced |-> TRUE,
        adopted |-> FALSE, from_dict |-> FALSE],
       [kind |-> "RoleBinding", name |-> <<"services", 0>>, namespaced |-> TRUE,
        adopted |-> FALSE, from_dict |-> FALSE] >>

\* The body submitted for row k of EnvironmentObjects.
environment_object(k) ==
    LET row == EnvironmentObjects[k]
        body == Object(row.kind, row.name,
                       IF row.namespaced THEN workshop_namespace ELSE NoName,
                       "environment")
    IN IF row.adopted THEN adopt_environment(body) ELSE body

\* A pass of the handler at step pc.  patch is what the pass has put into
\* patch["status"], phase the phase in the status of the resource; created
\* holds the bodies the pass has submitted, previous the error the pass
\* before it ended with.
EnvironmentPass(pc, attempts, previous, phase) ==
    [pc |-> pc, n |-> 0, error |-> "", collision |-> NoObject, listed |-> {},
     attempts |-> attempts, patch |-> "", phase |-> phase, created |-> {},
     previous |-> previous]

\* The pass ends with an exception: the patch it holds is applied to the
\* status of the resource, and kopf runs the handler again later.
raise(h, error, collision) ==
    [h EXCEPT !.pc = "failed", !.error = error, !.collision = collision,
              !.phase = IF h.patch # "" THEN h.patch ELSE @]

\* What an earlier deployment of the same names may have left in the cluster.
LeftBehind ==
    {Object("Namespace", workshop_namespace, NoName, "other"),
     Object("ClusterRole", <<"web-console", 1>>, NoName, "other"),
     Object("PodSecurityPolicy", <<"aaa-nonroot-security-policy", 1>>, NoName, "other")}

InitEnvironment ==
    /\ NoEngine
    /\ NoPlanning
    /\ portal = [exists |-> FALSE]
    /\ platform \in [workshops : SUBSET {workshop_name}, profile : BOOLEAN]
    /\ cluster \in SUBSET LeftBehind
    /\ handler = EnvironmentPass("idle", 0, "", "")

\* kopf calls the handler: for the creation event, and again after a pass
\* that ended with an error.
EnvironmentStartPass ==
    /\ handler.pc \in {"idle", "failed"}
    /\ handler.attempts < MaxAttempts
    /\ handler' = EnvironmentPass("workshop", handler.attempts + 1, handler.error,
                                  handler.phase)
    /\ UNCHANGED <<portal, platform, cluster>>
    /\ UNCHANGED <<engineVars, planVars>>

\* Workshop.objects(api).get(name=workshop_name)
LookupWorkshop ==
    /\ handler.pc = "workshop"
    /\ handler' = IF workshop_name \in platform.workshops
                  THEN [handler EXCEPT !.pc = "profile"]
                  ELSE raise([handler EXCEPT !.patch = "Pending"],
                             "workshop-missing", NoObject)
    /\ UNCHANGED <<portal, platform, cluster>>
    /\ UNCHANGED <<engineVars, planVars>>

\* current_profile(system_profile)
LookupProfile ==
    /\ handler.pc = "profile"
    /\ handler' = IF platform.profile
                  THEN [handler EXCEPT !.pc = "namespace"]
                  ELSE raise(handler, "profile-missing", NoObject)
    /\ UNCHANGED <<portal, platform, cluster>>
    /\ UNCHANGED <<engineVars, planVars>>

\* The namespace of the environment, a child of the environment: a 409 of
\* the create call ends the pass, with phase Pending.
CreateWorkshopNamespace ==
    /\ handler.pc = "namespace"
    /\ LET body == adopt_environment(Object("Namespace", workshop_namespace, NoName,
                                            "environment"))
           found == present("Namespace", workshop_namespace, NoName)
       IN IF found # {}
          THEN /\ handler' = raise([handler EXCEPT !.patch = "Pending"],
                                   "namespace-exists", CHOOSE o \in found : TRUE)
               /\ UNCHANGED cluster
          ELSE /\ cluster' = cluster \cup {body}
               /\ handler' = [handler EXCEPT !.pc = "list-LimitRange",
                                             !.created = @ \cup {body}]
    /\ UNCHANGED <<portal, platform>>
    /\ UNCHANGED <<engineVars, planVars>>

\* pykube.LimitRange.objects(...).all() / pykube.ResourceQuota.objects(...).all()
QueryLimits(kind) ==
    /\ handler.pc = IF kind = "LimitRange" THEN "list-LimitRange" ELSE "list-ResourceQuota"
    /\ handler' = [handler EXCEPT
                      !.pc = IF kind = "LimitRange" THEN "delete-LimitRange"
                             ELSE "delete-ResourceQuota",
                      !.listed = {o \in cluster : o.kind = kind
                                                  /\ o.namespace = workshop_namespace}]
    /\ UNCHANGED <<portal, platform, cluster>>
    /\ UNCHANGED <<engineVars, planVars>>

\* The items found are deleted; ObjectDoesNotExist is passed over.
ClearLimits(kind) ==
    /\ handler.pc = IF kind = "LimitRange" THEN "delete-LimitRange" ELSE "delete-ResourceQuota"
    /\ cluster' = cluster \ handler.listed
    /\ handler' = [handler EXCEPT
                      !.pc = IF kind = "LimitRange" THEN "list-ResourceQuota" ELSE "objects",
                      !.n = IF kind = "LimitRange" THEN @ ELSE 1,
                      !.listed = {}]
    /\ UNCHANGED <<portal, platform>>
    /\ UNCHANGED <<engineVars, planVars>>

\* create_from_dict(body): creation that takes "already exists" as success.
create_from_dict(h, obj) ==
    IF present(obj.kind, obj.name, obj.namespace) # {}
    THEN /\ handler' = [h EXCEPT !.n = @ + 1]
         /\ UNCHANGED cluster
    ELSE /\ cluster' = cluster \cup {obj}
         /\ handler' = [h EXCEPT !.n = @ + 1, !.created = @ \cup {obj}]

\* pykube's create(): the 409 of an object that exists passes through the handler.
pykube_create(h, obj) ==
    IF present(obj.kind, obj.name, obj.namespace) # {}
    THEN /\ handler' = raise(h, "already-exists",
                             CHOOSE o \in present(obj.kind, obj.name, obj.namespace) : TRUE)
         /\ UNCHANGED cluster
    ELSE /\ cluster' = cluster \cup {obj}
         /\ handler' = [h EXCEPT !.n = @ + 1, !.created = @ \cup {obj}]

\* The next object of the environment is submitted.
CreateEnvironmentObject ==
    /\ handler.pc = "objects"
    /\ handler.n <= Len(EnvironmentObjects)
    /\ IF EnvironmentObjects[handler.n].from_dict
       THEN create_from_dict(handler, environment_object(handler.n))
       ELSE pykube_create(handler, environment_object(handler.n))
    /\ UNCHANGED <<portal, platform>>
    /\ UNCHANGED <<engineVars, planVars>>

\* The handler returns the status: phase Running.
ReturnRunning ==
    /\ handler.pc = "objects"
    /\ handler.n > Len(EnvironmentObjects)
    /\ handler' = [handler EXCEPT !.pc = "done", !.phase = "Running"]
    /\ UNCHANGED <<portal, platform, cluster>>
    /\ UNCHANGED <<engineVars, planVars>>

\* A call of the API fails for a reason of the cluster's: the exception ends the pass.
EnvironmentApiFailure ==
    /\ handler.pc \in {"workshop", "namespace", "list-LimitRange", "list-ResourceQuota",
                       "objects"}
    /\ handler' = raise(handler, "api-error", NoObject)
    /\ UNCHANGED <<portal, platform, cluster>>
    /\ UNCHANGED <<engineVars, planVars>>

\* The workshop definition is applied to the cluster.
ApplyWorkshop ==
    /\ workshop_name \notin platform.workshops
    /\ platform' = [platform EXCEPT !.workshops = @ \cup {workshop_name}]
    /\ UNCHANGED <<portal, cluster, handler>>
    /\ UNCHANGED <<engineVars, planVars>>

\* The system profile is applied to the cluster.
ApplyProfile ==
    /\ ~platform.profile
    /\ platform' = [platform EXCEPT !.profile = TRUE]
    /\ UNCHANGED <<portal, cluster, handler>>
    /\ UNCHANGED <<engineVars, planVars>>

\* The cluster's templates add a limit range or a quota to the new namespace.
TemplateLimits(kind) ==
    /\ handler.pc \in {"list-LimitRange", "list-ResourceQuota"}
    /\ present(kind, <<"default", 0>>, workshop_namespace) = {}
    /\ cluster' = cluster \cup {Object(kind, <<"default", 0>>, workshop_namespace, "other")}
    /\ UNCHANGED <<portal, platform, handler>>
    /\ UNCHANGED <<engineVars, planVars>>

\* Somebody else deletes a limit range or a quota.
WithdrawLimits(kind) ==
    /\ present(kind, <<"default", 0>>, workshop_namespace) # {}
    /\ cluster' = cluster \ present(kind, <<"default", 0>>, workshop_namespace)
    /\ UNCHANGED <<portal, platform, handler>>
    /\ UNCHANGED <<engineVars, planVars>>

\* The namespace somebody else left behind is gone at last.
ForeignNamespaceGone ==
    /\ \E o \in present("Namespace", workshop_namespace, NoName) : o.by = "other"
    /\ cluster' = {o \in cluster : ~(o.kind = "Namespace" /\ o.by = "other")
                                   /\ o.namespace # workshop_namespace}
    /\ UNCHANGED <<portal, platform, handler>>
    /\ UNCHANGED <<engineVars, planVars>>

NextEnvironment ==
    \/ EnvironmentStartPass
    \/ LookupWorkshop
    \/ LookupProfile
    \/ CreateWorkshopNamespace
    \/ \E kind \in LimitKinds : QueryLimits(kind)
    \/ \E kind \in LimitKinds : ClearLimits(kind)
    \/ CreateEnvironmentObject
    \/ ReturnRunning
    \/ EnvironmentApiFailure
    \/ ApplyWorkshop
    \/ ApplyProfile
    \/ \E kind \in LimitKinds : TemplateLimits(kind)
    \/ \E kind \in LimitKinds : WithdrawLimits(kind)
    \/ ForeignNamespaceGone

SpecEnvironment == InitEnvironment /\ [][NextEnvironment]_vars

\* ------------------ ingress settings of the portal (training_portal_create)
\* What spec.portal.ingress may give, and what the system profile holds: the
\* profile may name no secret.
IngressDomains == {"default.test", "other.test"}
IngressClasses == {"contour", "nginx"}
IngressSecrets == {"default-tls", "portal-tls"}

\* spec.portal.ingress.get("domain", default_ingress_domain)
ingress_domain(spec, profile) == get(spec.domain, profile.domain)

\* spec.portal.ingress.get("class", default_ingress_class)
ingress_class(spec, profile) == get(spec.class, profile.class)

\* The secret of the profile when the domain is the profile's, else
\* spec.portal.ingress.get("secret", "").
ingress_secret(spec, profile) ==
    IF ingress_domain(spec, profile) = profile.domain
    THEN profile.secret
    ELSE get(spec.secret, "")

InitIngress ==
    /\ NoEngine
    /\ NoPlanning
    /\ portal \in [exists : {TRUE},
                   ingress : [domain : Optional(IngressDomains),
                              class : Optional(IngressClasses),
                              secret : Optional(IngressSecrets)]]
    /\ platform \in [profile : [domain : IngressDomains, class : IngressClasses,
                                secret : IngressSecrets \cup {""}]]
    /\ cluster = {}
    /\ handler = [pc |-> "input"]

\* The handler determines the settings of the ingress.
ResolveIngress ==
    /\ handler.pc = "input"
    /\ handler' = [pc |-> "resolved",
                   ingress_domain |-> ingress_domain(portal.ingress, platform.profile),
                   ingress_class |-> ingress_class(portal.ingress, platform.profile),
                   ingress_secret |-> ingress_secret(portal.ingress, platform.profile)]
    /\ UNCHANGED <<portal, platform, cluster>>
    /\ UNCHANGED <<engineVars, planVars>>

NextIngress == ResolveIngress

SpecIngress == InitIngress /\ [][NextIngress]_vars

\* ---------------- egress network policy (workshop_environment_create)
\* A CIDR is the sequence of the pieces of its text.
Cidrs ==
    {<<"10", ".", "0", ".", "0", ".", "0", "/", "8">>,
     <<"169", ".", "254", ".", "0", ".", "0", "/", "16">>,
     <<"fd00", ":", ":", "/", "8">>,
     <<"fe80", ":", ":", "/", "10">>}

\* ":" in block
has_colon(block) == \E i \in DOMAIN block : block[i] = ":"
no_colon(block) == ~has_colon(block)

\* One rule of spec.egress.
egress_rule(cidr, blocks) == [cidr |-> cidr, except |-> blocks]

\* The rules with a rule for each family, blocked or not.
egresses_both_families(blockcidrs) ==
    << egress_rule("0.0.0.0/0", SelectSeq(blockcidrs, no_colon)),
       egress_rule("::/0", SelectSeq(blockcidrs, has_colon)) >>

\* The rules of the policy: the blocklist split by family, a rule for each
\* family that has a block.
egresses(blockcidrs) ==
    LET ipv4_blockcidrs == SelectSeq(blockcidrs, no_colon)
        ipv6_blockcidrs == SelectSeq(blockcidrs, has_colon)
    IN (IF ipv4_blockcidrs # << >>
        THEN << egress_rule("0.0.0.0/0", ipv4_blockcidrs) >> ELSE << >>)
       \o (IF ipv6_blockcidrs # << >>
           THEN << egress_rule("::/0", ipv6_blockcidrs) >> ELSE << >>)

network_policy_body ==
    adopt_environment(Object("NetworkPolicy", <<"network-policy", 0>>,
                             workshop_namespace, "environment"))

InitPolicy ==
    /\ NoEngine
    /\ NoPlanning
    /\ portal = [exists |-> FALSE]
    /\ platform \in [blockcidrs : SeqsUpTo(Cidrs, MaxBlocks)]
    /\ cluster = {Object("Namespace", workshop_namespace, NoName, "environment")}
    /\ handler = [pc |-> "policy", egress |-> << >>]

\* if blockcidrs: ... NetworkPolicy(api, network_policy_body).create()
CreateNetworkPolicy ==
    /\ handler.pc = "policy"
    /\ IF platform.blockcidrs # << >>
       THEN /\ cluster' = cluster \cup {network_policy_body}
            /\ handler' = [pc |-> "config", egress |-> egresses(platform.blockcidrs)]
       ELSE /\ cluster' = cluster
            /\ handler' = [pc |-> "config", egress |-> << >>]
    /\ UNCHANGED <<portal, platform>>
    /\ UNCHANGED <<engineVars, planVars>>

NextPolicy == CreateNetworkPolicy

SpecPolicy == InitPolicy /\ [][NextPolicy]_vars

\* --------------------- placeholder substitution (_substitute_variables)
\* A text is the sequence of its pieces: "$(" and ")" are pieces, and so is
\* each name and each stretch of other text.
\* The placeholders in the order the code replaces them, each with its value.
Placeholders ==
    << [name |-> "workshop_name", value |-> <<"lab">>],
       [name |-> "environment_name", value |-> <<"env">>],
       [name |-> "environment_token", value |-> <<"token">>],
       [name |-> "workshop_namespace", value |-> <<"env">>],
       [name |-> "service_account", value |-> <<"services">>],
       [name |-> "ingress_domain", value |-> <<"test">>],
       [name |-> "ingress_protocol", value |-> <<"http">>],
       [name |-> "ingress_port_suffix", value |-> << >>],
       [name |-> "ingress_secret", value |-> <<"tls">>] >>

\* "$(name)"
placeholder(name) == <<"$(", name, ")">>

\* str.replace(old, new): the occurrences of old, from the left and without
\* overlap, are replaced by new.
RECURSIVE replace(_, _, _)
replace(text, old, new) ==
    IF Len(text) < Len(old) THEN text
    ELSE IF SubSeq(text, 1, Len(old)) = old
         THEN new \o replace(SubSeq(text, Len(old) + 1, Len(text)), old, new)
    ELSE <<Head(text)>> \o replace(Tail(text), old, new)

\* The chain of obj.replace calls, from the k-th placeholder on.
RECURSIVE replace_from(_, _)
replace_from(text, k) ==
    IF k > Len(Placeholders) THEN text
    ELSE replace_from(replace(text, placeholder(Placeholders[k].name),
                              Placeholders[k].value), k + 1)

\* A manifest tree: a string, another scalar, a sequence, or a mapping (the
\* sequence of its items, each a key and a tree).
Str(text) == [type |-> "str", value |-> text]
Scalar(v) == [type |-> "scalar", value |-> v]
List(items) == [type |-> "list", items |-> items]
Dict(items) == [type |-> "dict", items |-> items]

\* _substitute_variables(obj)
RECURSIVE substitute_variables(_)
substitute_variables(obj) ==
    IF obj.type = "str" THEN Str(replace_from(obj.value, 1))
    ELSE IF obj.type = "dict"
         THEN Dict([i \in DOMAIN obj.items |->
                       <<obj.items[i][1], substitute_variables(obj.items[i][2])>>])
    ELSE IF obj.type = "list"
         THEN List([i \in DOMAIN obj.items |-> substitute_variables(obj.items[i])])
    ELSE obj

\* The texts a manifest may hold.
Texts ==
    {<<"app">>,
     <<"$(", "workshop_name", ")">>,
     <<"app", "$(", "environment_name", ")", "$(", "ingress_port_suffix", ")">>,
     <<"$(", "ingress_protocol", ")", "app", "$(", "ingress_domain", ")",
       "$(", "ingress_secret", ")">>,
     <<"$(", "environment_token", ")", "$(", "workshop_namespace", ")",
       "$(", "service_account", ")", "$(", "workshop_name", ")">>,
     <<"$(", "session_namespace", ")">>,
     <<"$(", "$(", "ingress_port_suffix", ")", "workshop_name", ")">>}

Leaves == {Str(t) : t \in Texts} \cup {Scalar(<<"8080">>)}

Keys == {<<"name">>, <<"data">>}

\* The trees of the model: leaves, sequences of leaves, mappings of them.
Manifests ==
    LET lists == {List(q) : q \in SeqsUpTo(Leaves, MaxItems)}
        inner == Leaves \cup lists
        dicts == {Dict(<< <<k, v>> >>) : k \in Keys, v \in inner}
    IN inner \cup dicts
          \cup {Dict(<< << <<"metadata">>, d >> >>) : d \in dicts}
          \cup {List(<<d>>) : d \in dicts}

InitSubstitute ==
    /\ NoEngine
    /\ NoPlanning
    /\ portal = [exists |-> FALSE]
    /\ platform \in [object_body : Manifests]
    /\ cluster = {}
    /\ handler = [pc |-> "substitute"]

\* object_body = _substitute_variables(object_body)
SubstituteVariables ==
    /\ handler.pc = "substitute"
    /\ handler' = [pc |-> "adopt", object_body |-> substitute_variables(platform.object_body)]
    /\ UNCHANGED <<portal, platform, cluster>>
    /\ UNCHANGED <<engineVars, planVars>>

NextSubstitute == SubstituteVariables

SpecSubstitute == InitSubstitute /\ [][NextSubstitute]_vars

\* --------------- the extra objects (workshop_environment_create)
\* The bodies the two lists may hold: with a namespace of their own or none.
ExtraBodies ==
    {Object("ConfigMap", <<"extra", i>>, namespace, "environment") :
        i \in 1..2, namespace \in {NoName, workshop_namespace}}

\* The body as submitted: in the workshop namespace unless it names one, and
\* adopted by the environment.
extra_object(object_body) ==
    adopt_environment([object_body EXCEPT
                          !.namespace = IF @ = NoName THEN workshop_namespace ELSE @])

InitExtras ==
    /\ NoEngine
    /\ NoPlanning
    /\ portal = [exists |-> FALSE]
    /\ platform \in [workshop_objects : SeqsUpTo(ExtraBodies, MaxItems),
                     environment_objects : SeqsUpTo(ExtraBodies, MaxItems)]
    /\ cluster = {adopt_environment(Object("Namespace", workshop_namespace, NoName,
                                           "environment"))}
    /\ handler = [pc |-> "workshop-objects", n |-> 1, error |-> "", created |-> {},
                  submitted |-> << >>]

\* The list a loop runs over: workshop_spec["environment"]["objects"], then
\* spec["environment"]["objects"].
objects(pc) ==
    IF pc = "workshop-objects" THEN platform.workshop_objects
    ELSE platform.environment_objects

\* One turn of a loop over extra objects.
CreateExtraObject ==
    /\ handler.pc \in {"workshop-objects", "environment-objects"}
    /\ handler.n <= Len(objects(handler.pc))
    /\ LET object_body == extra_object(objects(handler.pc)[handler.n])
       IN create_from_dict([handler EXCEPT !.submitted = Append(@, object_body)],
                           object_body)
    /\ UNCHANGED <<portal, platform>>
    /\ UNCHANGED <<engineVars, planVars>>

\* A loop over extra objects is over.
ExtraObjectsDone ==
    /\ handler.pc \in {"workshop-objects", "environment-objects"}
    /\ handler.n > Len(objects(handler.pc))
    /\ handler' = [handler EXCEPT
                      !.pc = IF @ = "workshop-objects" THEN "environment-objects"
                             ELSE "policy-objects",
                      !.n = 1]
    /\ UNCHANGED <<portal, platform, cluster>>
    /\ UNCHANGED <<engineVars, planVars>>

NextExtras ==
    \/ CreateExtraObject
    \/ ExtraObjectsDone

SpecExtras == InitExtras /\ [][NextExtras]_vars

\* ------------- a portal whose list may name a workshop more than once
\* Every workshop is defined and no secret is named; a namespace that the
\* portal may need is left behind by somebody else, or none is.
InitReferences ==
    /\ NoEngine
    /\ NoPlanning
    /\ portal \in [exists : {TRUE},
                   workshops : SeqsUpTo(1..2, MaxReferences),
                   ingress_secret : {FALSE},
                   pull_secret : {FALSE}]
    /\ platform = [workshops |-> 1..2, tls |-> "absent", pull |-> "absent",
                   delete_error |-> ""]
    /\ cluster \in {{}} \cup {{Object("Namespace", n, NoName, "other")} :
                                n \in {portal_namespace}
                                         \cup {environment_name(i) : i \in 1..MaxReferences}}
    /\ handler = Pass("idle", 0, "")

NextReferences ==
    \/ StartPass
    \/ ValidateWorkshops
    \/ PreflightNamespaces
    \/ CheckIngressSecret
    \/ CheckPullSecret
    \/ CreateNamespace
    \/ \E kind \in LimitKinds : ListLimits(kind)
    \/ \E kind \in LimitKinds : DeleteLimits(kind)
    \/ CopyTlsSecret
    \/ CreateEnvironment
    \/ EnvironmentsDone
    \/ CreateObject
    \/ ReportStatus

SpecReferences == InitReferences /\ [][NextReferences]_vars

\* --------------------------- the REST view (environment_request)
\* An email address is the sequence of the pieces of its text; none is << >>.
Emails == {<< >>, <<"ada", "@", "example.test">>, <<"ada", "example.test">>}

\* validate_email: one "@", with text on either side.
validate_email(email) == Len(email) = 3 /\ email[2] = "@"

\* The one environment there is, and a name no environment has.
EnvironmentIds == {"lab-w01", "lab-w02"}
environment_exists(name) == name = "lab-w01"

\* What a request carries: whether its caller is in the robots group, the
\* name in the URL, and the parameters of the query.
Requests ==
    [robot : BOOLEAN, name : EnvironmentIds, index_url : {"", "index"},
     redirect_url : {"", "index"}, email : Emails, user : (1..SweepUsers) \cup {NoUser}]

\* The checks of the view, in its order: "" when the request passes them.
refusal(r) ==
    IF ~r.robot THEN "403 Session requests not permitted"
    ELSE IF ~environment_exists(r.name) THEN "403 Environment does not exist"
    ELSE IF r.index_url = "" /\ r.redirect_url = ""
         THEN "400 Need redirect URL for workshop index"
    ELSE IF r.email # << >> /\ ~validate_email(r.email)
         THEN "400 Invalid email address provided"
    ELSE ""

\* The id a new account gets: the least one no account has.
fresh_user == {u \in Users : u \notin platform.accounts
                              /\ \A v \in Users : v < u => v \in platform.accounts}

\* The view that looks up or creates the user before it validates the email.
environment_request_user_first(r) ==
    /\ lock = NoUser
    /\ IF ~r.robot \/ ~environment_exists(r.name)
          \/ (r.index_url = "" /\ r.redirect_url = "")
       THEN /\ handler' = [response |-> refusal(r), session |-> NoSession]
            /\ UNCHANGED <<platform, session_set, pending>>
       ELSE \E u \in (IF r.user # NoUser THEN {r.user} ELSE fresh_user) :
               /\ platform' = [platform EXCEPT !.accounts = @ \cup {u}]
               /\ IF refusal(r) # ""
                  THEN /\ handler' = [response |-> refusal(r), session |-> NoSession]
                       /\ UNCHANGED <<session_set, pending>>
                  ELSE \E s \in (DOMAIN session_set) \cup {NoSession} :
                          /\ retrieve_session_for_user(u, u, s)
                          /\ handler' = [response |-> IF s = NoSession
                                                      THEN "503 No session available"
                                                      ELSE "200",
                                         session |-> s]
    /\ UNCHANGED <<environment, applications, now, lock, request, raised>>
    /\ UNCHANGED <<planVars, portal, cluster>>

\* environment_request(request, name), under resources_lock and in one
\* transaction: the checks, the user (looked up, or created), the session.
\* A request that names no user gets a user of a fresh id, the least one free.
environment_request(r) ==
    /\ lock = NoUser
    /\ IF refusal(r) # ""
       THEN /\ handler' = [response |-> refusal(r), session |-> NoSession]
            /\ UNCHANGED <<platform, session_set, pending>>
       ELSE \E u \in (IF r.user # NoUser THEN {r.user} ELSE fresh_user) :
               /\ platform' = [platform EXCEPT !.accounts = @ \cup {u}]
               /\ \E s \in (DOMAIN session_set) \cup {NoSession} :
                     /\ retrieve_session_for_user(u, u, s)
                     /\ handler' = [response |-> IF s = NoSession
                                                 THEN "503 No session available"
                                                 ELSE "200",
                                    session |-> s]
    /\ UNCHANGED <<environment, applications, now, lock, request, raised>>
    /\ UNCHANGED <<planVars, portal, cluster>>

\* The environment with its initial sessions materialized and available, no
\* account yet, and no request answered.
InitRequest ==
    /\ \E k \in 0..SweepTally :
          /\ environment \in {[e EXCEPT !.tally = k] :
                                 e \in {c \in EnvironmentConfigs(SweepTally) :
                                           k <= c.capacity /\ c.initial = k}}
          /\ session_set = [s \in 1..k |-> [NewSession EXCEPT !.state = WAITING]]
          /\ applications = 1..k
    /\ now = 0
    /\ lock = NoUser
    /\ request = [u \in Users |-> Idle]
    /\ pending = 0
    /\ raised = FALSE
    /\ NoPlanning
    /\ portal = [exists |-> FALSE]
    /\ platform = [accounts |-> {}]
    /\ cluster = {}
    /\ handler = [response |-> "", session |-> NoSession]

NextRequest == \E r \in Requests : environment_request(r)

SpecRequest == InitRequest /\ [][NextRequest]_vars

\* ------------------------------------------------------------------ claims
\* The sessions a requester holds: owned by it and not STOPPED.
Held(u) == {i \in DOMAIN session_set :
               session_set[i].owner = u /\ session_set[i].state # STOPPED}

Served == {u \in Users : request[u].pc = "served"}
Refused == {u \in Users : request[u].pc = "exhausted"}

\* C1: N requesters ask at once against a pool of K < N available sessions:
\* once all are answered exactly K obtained a session and N-K were told the
\* capacity is exhausted, and at no time do two requesters hold or are handed
\* the same session.
C1_BurstExactlyK ==
    /\ \A u, v \in Served :
          u # v => request[u].result # request[v].result
    /\ \A u \in Served : session_set[request[u].result].owner = u
    /\ (Served \cup Refused = Users /\ Len(session_set) < NumUsers)
          => /\ Cardinality(Served) = Len(session_set)
             /\ Cardinality(Refused) = NumUsers - Len(session_set)

C1_Witness ==
    /\ Served \cup Refused = Users
    /\ Len(session_set) >= 1
    /\ Len(session_set) < NumUsers
    /\ Refused # {}

\* C2: no requester ever owns two sessions of the environment that are not
\* STOPPED.
C2_OneActiveSessionPerOwner ==
    \A u \in Users : Cardinality(Held(u)) <= 1

C2_Witness ==
    \E u \in Users : \E i, j \in DOMAIN session_set :
        /\ session_set[i].owner = u /\ session_set[i].state = STOPPED
        /\ session_set[j].owner = u /\ session_set[j].state # STOPPED

\* The step in which the view answers requester u.
Answers(u) == lock = u /\ request[u].pc = "locked" /\ request'[u].pc # "locked"

\* C3: a requester that holds a session is answered with that session, and the
\* call changes no session (owner, state, started, expires and token stay) and
\* requests no creation.
C3_RepeatedAllocateIsIdempotent ==
    [][\A u \in Users :
          (Answers(u) /\ Held(u) # {})
             => /\ request'[u].pc = "served"
                /\ request'[u].result \in Held(u)
                /\ session_set' = session_set
                /\ pending' = pending]_vars

\* A REST request (with a token) answered with a session that carries no
\* token: the session was assigned by an earlier call of the web view.
C3_Witness ==
    \E u \in Users :
        /\ request[u].pc = "served"
        /\ request[u].token # NoToken
        /\ session_set[request[u].result].owner = u
        /\ session_set[request[u].result].token = NoToken

\* The sessions of the pool: no owner, STARTING or WAITING.
Pool == {i \in DOMAIN session_set :
            session_set[i].owner = NoUser
            /\ session_set[i].state \in {STARTING, WAITING}}

\* C4: a requester that holds no session, asking while the pool is empty, is
\* told at once that the capacity is exhausted, and no session changes.
C4_ExhaustedImmediately ==
    [][\A u \in Users :
          (Answers(u) /\ Held(u) = {} /\ Pool = {})
             => /\ request'[u].pc = "exhausted"
                /\ request'[u].result = NoSession
                /\ session_set' = session_set
                /\ pending' = pending]_vars

C4_Witness ==
    \E u \in Users :
        /\ request[u].pc = "exhausted"
        /\ Len(session_set) > 0
        /\ Held(u) = {}

NotStopped == {i \in DOMAIN session_set : session_set[i].state # STOPPED}

\* C10: the sessions that are not STOPPED plus the creations requested and not
\* yet materialized never exceed the capacity; and an allocation that leaves
\* fewer than reserved sessions in the pool while that total is below the
\* capacity requests exactly one creation.
C10_ReplenishWithinCapacity ==
    /\ [](Cardinality(NotStopped) + pending <= environment.capacity)
    /\ [][\A u \in Users :
             (Answers(u) /\ session_set' # session_set)
                => pending' =
                      IF Cardinality(Pool') < environment.reserved
                         /\ Cardinality(NotStopped') + pending < environment.capacity
                      THEN pending + 1
                      ELSE pending]_vars

\* The worked example: the one initial session is assigned and one creation
\* is requested.
C10_Witness ==
    /\ environment.capacity = 3
    /\ environment.reserved = 1
    /\ environment.initial = 1
    /\ Len(session_set) = 1
    /\ session_set[1].owner # NoUser
    /\ pending = 1

C9_StateOnlyMovesForward ==
    [][\A i \in DOMAIN session_set :
          /\ session_set'[i].state >= session_set[i].state
          /\ session_set[i].state = STOPPED => session_set'[i].state = STOPPED]_vars

\* C5: whatever integers the portal and the workshop entry give for capacity,
\* reserved and initial, the plan is emitted (no input is rejected) and it
\* satisfies 0 <= reserved <= capacity and reserved <= initial <= capacity.
C5_PlanIsClamped ==
    /\ plan.phase = "input" => ENABLED PlanWorkshop
    /\ plan.phase = "planned" =>
          /\ 0 <= plan.environment.reserved
          /\ plan.environment.reserved <= plan.environment.capacity
          /\ plan.environment.reserved <= plan.environment.initial
          /\ plan.environment.initial <= plan.environment.capacity

\* An entry asking for more reserved sessions than its capacity: reserved is
\* cut down to the capacity.
C5_Witness ==
    /\ plan.phase = "planned"
    /\ plan.workshop.capacity # << >>
    /\ plan.workshop.reserved # << >>
    /\ plan.workshop.capacity[1] > 0
    /\ plan.workshop.reserved[1] > plan.workshop.capacity[1]
    /\ plan.environment.reserved = plan.workshop.capacity[1]


\* C6: when a pass of the portal reconciliation failed after it had created
\* child objects, a later pass takes "already exists" on them as success and
\* completes: so no pass ends in failure over an object that this portal's
\* reconciliation (or its environments') put there.
C6_RetrySucceedsOverOwnObjects ==
    (handler.pc = "failed" /\ handler.collision # NoObject)
        => handler.collision.by = "other"

missing_workshops ==
    {i \in DOMAIN portal.workshops : portal.workshops[i] \notin platform.workshops}

\* C11: a pass that meets a missing workshop ends with a retryable error
\* there and has created no object; with every workshop defined the check
\* lets the pass go on to the next step (unless the API itself fails).
C11_MissingWorkshopIsRetried ==
    /\ []((handler.pc = "failed" /\ handler.error = "workshop-missing")
             => handler.created = {})
    /\ [][(handler.pc = "workshops" /\ handler'.pc # "workshops")
            => /\ cluster' = cluster
               /\ handler'.created = {}
               /\ IF missing_workshops # {}
                  THEN /\ handler'.pc = "failed"
                       /\ handler'.error \in {"workshop-missing", "api-error"}
                       /\ handler'.attempts = handler.attempts
                  ELSE \/ handler'.pc = "preflight"
                       \/ handler'.pc = "failed" /\ handler'.error = "api-error"]_vars

\* A pass failed on a missing workshop, the workshop was defined, and the
\* retry is past the check.
C11_Witness ==
    /\ handler.previous = "workshop-missing"
    /\ handler.attempts = 2
    /\ handler.pc = "preflight"
    /\ missing_workshops = {}
    /\ Len(portal.workshops) > 0

\* The namespaces the reconciliation is about to claim that exist already.
colliding_namespaces ==
    {o \in cluster : o.kind = "Namespace" /\ o.name \in required_namespaces}

\* C12: when the portal namespace or the namespace of one of the portal's
\* environments exists at the pre-flight check, the pass ends there with a
\* retryable error, and it has created nothing and changed no object.
C12_NamespaceCollisionIsRetried ==
    /\ []((handler.pc = "failed" /\ handler.error = "namespace-exists")
             => handler.created = {})
    /\ [][(handler.pc = "preflight" /\ handler'.pc # "preflight")
            => /\ cluster' = cluster
               /\ handler'.created = {}
               /\ (colliding_namespaces # {}
                     => /\ handler'.pc = "failed"
                        /\ handler'.error \in {"namespace-exists", "api-error"}
                        /\ handler'.attempts = handler.attempts)]_vars

\* The pass ended on the namespace of an environment that somebody else left.
C12_Witness ==
    /\ handler.pc = "failed"
    /\ handler.error = "namespace-exists"
    /\ handler.collision \in cluster
    /\ handler.collision.name = environment_name(1)
    /\ handler.collision.by = "other"
    /\ handler.created = {}

\* C13: the deletion handlers of a portal and of an environment do nothing:
\* the step that deletes a portal leaves every object of the cluster as it
\* was, the step that deletes an environment of a living portal removes that
\* environment alone, and no deletion raises an error.  The children go by
\* the collector only.
C13_DeletionHandlersDoNothing ==
    /\ [](platform.delete_error = "")
    /\ [][/\ (portal.exists /\ ~portal'.exists) => cluster' = cluster
           /\ \A e \in cluster \ cluster' :
                 (e.kind = "WorkshopEnvironment" /\ portal.exists)
                    => cluster' = cluster \ {e}]_vars

\* The portal is gone after a complete pass, and its children are all still
\* there, the environment's namespace too.
C13_Witness ==
    /\ ~portal.exists
    /\ handler.pc = "done"
    /\ handler.created \subseteq cluster
    /\ present("Namespace", environment_name(1), NoName) # {}
    /\ platform.delete_error = ""

\* C14: every object the portal reconciliation submits carries, when it is
\* submitted, an ownership stamp that names the portal.
C14_EverySubmittedObjectIsStamped ==
    \A o \in handler.created : o.owner = portal_name

\* C15: the URL a completed pass reports is https exactly when an ingress
\* secret is named, is in the system namespace and is valid, and http
\* otherwise; a pass that met a named secret missing or not valid ended
\* there, and a pass that has not completed reports no URL.
C15_SecureSchemeIffValidatedSecret ==
    /\ [](/\ handler.pc = "done"
             => /\ handler.url \in {"http", "https"}
                /\ handler.url = "https" <=> (portal.ingress_secret /\ platform.tls = "valid")
          /\ handler.pc # "done" => handler.url = "")
    /\ [][(/\ handler.pc = "tls"
           /\ handler'.pc # "tls"
           /\ portal.ingress_secret
           /\ platform.tls # "valid")
            => /\ handler'.pc = "failed"
               /\ handler'.error \in {"tls-missing", "tls-invalid"}]_vars

\* A pass completed with https after an earlier one had ended on a secret that
\* was not valid.
C15_Witness ==
    /\ handler.pc = "done"
    /\ handler.url = "https"
    /\ handler.previous = "tls-invalid"
    /\ platform.tls = "valid"

\* C16: the write that claims a session goes through only while the session
\* has no owner: with the lock relaxed, a session that has an owner keeps it.
C16_ClaimWriteIsCompareAndSet ==
    [][\A s \in DOMAIN session_set :
          session_set[s].owner # NoUser
             => session_set'[s].owner = session_set[s].owner]_vars

\* C17: the lock of an allocation request is the lock of its environment: two
\* requests for one environment are never under the lock together, and a
\* request is not kept waiting while no request for its own environment is
\* under the lock.
C17_LockScopedToEnvironment ==
    /\ \A u, v \in Users :
          (u # v /\ request[u].pc = "locked" /\ request[v].pc = "locked")
             => request[u].name # request[v].name
    /\ \A u \in Users :
          (/\ request[u].pc = "waiting"
           /\ \A v \in Users : request[v].pc = "locked"
                                  => request[v].name # request[u].name)
             => ENABLED Enter(u)

\* C18: for a workshop entry, each of capacity, reserved and initial is, on
\* its own, the entry's value when the entry sets it and the portal's value
\* otherwise; the plan is the clamping of those three.
C18_EachValueDefaultsFromPortal ==
    plan.phase = "planned" =>
        plan.environment =
            clamp(get(plan.workshop.capacity, default_capacity(plan.portal)),
                  get(plan.workshop.reserved, default_reserved(plan.portal)),
                  get(plan.workshop.initial, default_initial(plan.portal)))

\* C19: a session in STARTING or WAITING has no owner; a session with an
\* owner is RUNNING, STOPPING or STOPPED.
C19_UnstartedSessionHasNoOwner ==
    \A s \in DOMAIN session_set :
        /\ session_set[s].state \in {STARTING, WAITING} => session_set[s].owner = NoUser
        /\ session_set[s].owner # NoUser => session_set[s].state \in {RUNNING, STOPPING, STOPPED}

\* The step in which requester u, holding no session and asking without an
\* activation token, is answered with a session.
FreshAllocation(u) ==
    /\ Answers(u)
    /\ Held(u) = {}
    /\ request[u].token = NoToken
    /\ request'[u].pc = "served"

\* C20: right after an allocation without an activation token the session has
\* the requester as owner, is RUNNING, started at the time of the allocation,
\* and expires at started plus the environment's duration.
C20_AllocationStartsSession ==
    [][\A u \in Users :
          FreshAllocation(u)
             => LET a == session_set'[request'[u].result]
                IN /\ a.owner = u
                   /\ a.state = RUNNING
                   /\ a.started = now
                   /\ a.expires = a.started + environment.duration]_vars

\* C20 as amended: the same, with the expiry at started plus the duration
\* when the environment has a duration, and no expiry when its duration is 0.
C20_AllocationStartsSessionOrUnlimited ==
    [][\A u \in Users :
          FreshAllocation(u)
             => LET a == session_set'[request'[u].result]
                IN /\ a.owner = u
                   /\ a.state = RUNNING
                   /\ a.started = now
                   /\ a.expires = IF environment.duration # 0
                                  THEN a.started + environment.duration
                                  ELSE NoTime
                   /\ \A i \in DOMAIN session_set :
                         i # request'[u].result => session_set'[i] = session_set[i]]_vars

\* A session just allocated, after the clock has moved, in an environment
\* with a duration.
C20_Witness ==
    \E u \in Users :
        /\ request[u].pc = "served"
        /\ request[u].token = NoToken
        /\ now > 0
        /\ environment.duration # 0
        /\ LET a == session_set[request[u].result]
           IN /\ a.owner = u
              /\ a.state = RUNNING
              /\ a.started = now
              /\ a.expires = now + environment.duration

\* C21: a session assigned with an activation token expires one grace window
\* (60 seconds) after the assignment, whatever the environment's duration;
\* when it is then marked running, it starts anew and expires one duration
\* later, or has no expiry when the duration is 0.
C21_GraceWindowThenDuration ==
    [][\A s \in DOMAIN session_set :
          /\ (/\ is_available(session_set[s])
              /\ session_set[s].token = NoToken
              /\ session_set'[s].token # NoToken)
                => /\ session_set'[s].started = now
                   /\ session_set'[s].expires = now + GraceSeconds
                   /\ session_set'[s].state = session_set[s].state
          /\ (/\ is_pending(session_set[s])
              /\ session_set'[s].state = RUNNING)
                => /\ session_set'[s].started = now
                   /\ session_set'[s].owner # NoUser
                   /\ session_set'[s].expires =
                         IF environment.duration # 0 THEN now + environment.duration
                         ELSE NoTime]_vars

\* A session with a token, pending within its grace window, in an environment
\* whose duration is not the grace window.
C21_Witness ==
    /\ is_pending(session_set[1])
    /\ session_set[1].token # NoToken
    /\ now > 0
    /\ session_set[1].started = now
    /\ session_set[1].expires = now + GraceSeconds
    /\ environment.duration # 0
    /\ environment.duration # GraceSeconds

\* C22: the session an allocation assigns is the oldest of the available
\* ones: the one created first (sessions are numbered as they are created).
C22_OldestAvailableIsAssigned ==
    [][\A u \in Users :
          (Answers(u) /\ Held(u) = {} /\ request'[u].pc = "served")
             => \A i \in Pool : request'[u].result <= i]_vars

\* C23: a session enters STOPPING from RUNNING only, and the step sets its
\* expiry to the current time and keeps its owner.
C23_StoppingOnlyFromRunning ==
    [][\A s \in DOMAIN session_set :
          (session_set'[s].state = STOPPING /\ session_set[s].state # STOPPING)
             => /\ session_set[s].state = RUNNING
                /\ session_set'[s].expires = now
                /\ session_set'[s].owner = session_set[s].owner]_vars

\* C24: a STOPPED session references no application and its application is
\* deleted; an application that a session not STOPPED references exists, and
\* an application is deleted only in the step that stops its session, with
\* the reference cleared.
C24_ApplicationReleasedAtStopped ==
    /\ [](\A s \in DOMAIN session_set :
             /\ session_set[s].state = STOPPED
                   => ~session_set[s].application /\ s \notin applications
             /\ (session_set[s].application /\ session_set[s].state # STOPPED)
                   => s \in applications)
    /\ [][\A s \in DOMAIN session_set :
             (s \in applications /\ s \notin applications')
                => /\ session_set'[s].state = STOPPED
                   /\ ~session_set'[s].application]_vars

\* A session stopped in the regular way: its application is gone and nothing
\* was raised.
C24_Witness ==
    /\ session_set[1].state = STOPPED
    /\ ~session_set[1].application
    /\ applications = {}
    /\ ~raised
    /\ session_set[1].owner # NoUser

\* C25: whatever the session and the low-water mark, extend_time_remaining
\* touches the expiry only, by nothing or by ExtendSeconds, and it advances
\* the expiry exactly when the session is RUNNING, has an expiry, and its
\* remaining time is above zero and at most the mark.
C25_ExtensionOnlyNearExpiry ==
    \A s \in DOMAIN session_set : \A period \in {Tick, DefaultPeriod} :
        LET before == session_set[s]
            after == extend_time_remaining(before, period, now)
        IN  /\ [after EXCEPT !.expires = before.expires] = before
            /\ after.expires \in {before.expires, before.expires + ExtendSeconds}
            /\ after.expires # before.expires
                  <=> /\ before.state = RUNNING
                      /\ before.expires # NoTime
                      /\ before.expires > now
                      /\ before.expires - now <= period

\* A running session whose expiry was advanced once, at a moment when a mark
\* of one tick would already apply.
C25_Witness ==
    /\ session_set[1].state = RUNNING
    /\ environment.duration # 0
    /\ session_set[1].expires = session_set[1].started + environment.duration + ExtendSeconds
    /\ now > session_set[1].started

\* C26: when the portal pass deletes the limit ranges and quotas it listed,
\* an item that is gone by then counts as deleted: the pass goes on with its
\* next step and records no error.
C26_MissingLimitCountsAsDeleted ==
    [][(handler.pc \in {"delete-LimitRange", "delete-ResourceQuota"}
        /\ handler'.pc # handler.pc)
          => /\ handler'.error = ""
             /\ handler'.pc = IF handler.pc = "delete-LimitRange"
                              THEN "list-ResourceQuota" ELSE "tls-copy"]_vars

\* C27: a pass that checks a named TLS or pull secret which is absent or
\* malformed ends there with a temporary error, which kopf retries; a pass
\* that checks a valid one goes on to the next step.
C27_BadSecretIsRetried ==
    [][/\ (handler.pc = "tls" /\ portal.ingress_secret /\ handler' # handler)
             => IF platform.tls = "valid"
                THEN handler'.pc = "pull" /\ handler'.error = ""
                ELSE /\ handler'.pc = "failed"
                     /\ error_kind(handler'.error) = "temporary"
                     /\ handler'.error \in {"tls-missing", "tls-invalid"}
       /\ (handler.pc = "pull" /\ portal.pull_secret /\ handler' # handler)
             => IF platform.pull = "valid"
                THEN handler'.pc = "namespace" /\ handler'.error = ""
                ELSE /\ handler'.pc = "failed"
                     /\ error_kind(handler'.error) = "temporary"
                     /\ handler'.error \in {"pull-missing", "pull-invalid"}]_vars

\* A pass that got past the pull secret check after the pass before it had
\* ended on the malformed pull secret.
C27_Witness ==
    /\ handler.previous = "pull-invalid"
    /\ handler.pc = "namespace"
    /\ platform.pull = "valid"
    /\ handler.attempts = 2

\* C28: a pass of the environment reconciliation that ends over a missing
\* workshop, a missing system profile or a namespace collision has put the
\* failure into the status of the environment: phase Pending.
C28_FailureIsInStatus ==
    (handler.pc = "failed"
     /\ handler.error \in {"workshop-missing", "profile-missing", "namespace-exists"})
        => handler.patch = "Pending" /\ handler.phase = "Pending"

\* C29: a pass of the environment reconciliation never ends over an object
\* that an earlier pass for the same environment created: "already exists" on
\* it is success.
C29_RetryPassesOwnObjects ==
    [][\A o \in cluster :
          (o.by = "environment" /\ handler.pc \in {"namespace", "objects"}
           /\ handler'.pc = "failed")
             => handler'.collision # o]_vars

\* C30: each of the ingress settings domain, class and secret is the value
\* the portal's spec gives when it gives one, and the default of the system
\* profile otherwise; so a secret the spec names is used also when the
\* domain is the default one.
C30_SpecOverridesProfile ==
    handler.pc = "resolved"
        => /\ handler.ingress_domain = get(portal.ingress.domain, platform.profile.domain)
           /\ handler.ingress_class = get(portal.ingress.class, platform.profile.class)
           /\ handler.ingress_secret = get(portal.ingress.secret, platform.profile.secret)

\* C31: the network policy is created exactly when the blocklist is not
\* empty; every blocked CIDR is in the except-list of exactly one rule, the
\* rule of ::/0 when it contains ":" and of 0.0.0.0/0 otherwise; and every
\* rule has a block, with at most one rule for a family.
C31_EgressSplitByFamily ==
    handler.pc = "config"
        => LET rules == handler.egress
               holds(r, b) == \E j \in DOMAIN rules[r].except : rules[r].except[j] = b
           IN /\ (network_policy_body \in cluster) <=> (platform.blockcidrs # << >>)
              /\ (platform.blockcidrs = << >>) => rules = << >>
              /\ \A i \in DOMAIN platform.blockcidrs :
                    LET b == platform.blockcidrs[i]
                    IN /\ Cardinality({r \in DOMAIN rules : holds(r, b)}) = 1
                       /\ \A r \in DOMAIN rules :
                             holds(r, b) => rules[r].cidr = IF has_colon(b) THEN "::/0"
                                                            ELSE "0.0.0.0/0"
              /\ \A r \in DOMAIN rules :
                    /\ rules[r].except # << >>
                    /\ rules[r].cidr \in {"0.0.0.0/0", "::/0"}
                    /\ \A q \in DOMAIN rules : rules[q].cidr = rules[r].cidr => q = r
                    /\ \A j \in DOMAIN rules[r].except :
                          \E i \in DOMAIN platform.blockcidrs :
                              platform.blockcidrs[i] = rules[r].except[j]

\* A policy for a blocklist of both families, with one block listed twice.
C31_Witness ==
    /\ handler.pc = "config"
    /\ network_policy_body \in cluster
    /\ Len(handler.egress) = 2
    /\ Len(platform.blockcidrs) = 3
    /\ platform.blockcidrs[1] = platform.blockcidrs[3]

\* The texts of the string values of a tree, at every depth.
RECURSIVE strings(_)
strings(obj) ==
    IF obj.type = "str" THEN {obj.value}
    ELSE IF obj.type = "dict"
         THEN UNION {strings(obj.items[i][2]) : i \in DOMAIN obj.items}
    ELSE IF obj.type = "list"
         THEN UNION {strings(obj.items[i]) : i \in DOMAIN obj.items}
    ELSE {}

\* Two trees of the same shape: the same nesting, keys and lengths, strings
\* where there are strings, and the same other scalars.
RECURSIVE same_shape(_, _)
same_shape(a, b) ==
    /\ a.type = b.type
    /\ CASE a.type = "str" -> TRUE
         [] a.type = "scalar" -> a = b
         [] a.type = "list" ->
               /\ Len(a.items) = Len(b.items)
               /\ \A i \in DOMAIN a.items : same_shape(a.items[i], b.items[i])
         [] OTHER ->
               /\ Len(a.items) = Len(b.items)
               /\ \A i \in DOMAIN a.items :
                     /\ a.items[i][1] = b.items[i][1]
                     /\ same_shape(a.items[i][2], b.items[i][2])

\* The text holds the pattern somewhere.
occurs(old, text) ==
    \E i \in 1..(Len(text) - Len(old) + 1) : SubSeq(text, i, i + Len(old) - 1) = old

\* C32: the substituted manifest has the shape of the given one, with the
\* other scalars unchanged, and no string value of it holds a recognized
\* placeholder any more (none of the values holds a placeholder).
C32_NoPlaceholderRemains ==
    handler.pc = "adopt"
        => /\ same_shape(platform.object_body, handler.object_body)
           /\ \A text \in strings(handler.object_body) :
                 \A k \in DOMAIN Placeholders :
                     ~occurs(placeholder(Placeholders[k].name), text)

\* C33: the extra objects are submitted in the order of the two lists, the
\* workshop's before the caller's, and when an object of the one list has the
\* kind, namespace and name of an object of the other, the pass ends with a
\* validation error instead of going on.
C33_ExtraObjectsCollide ==
    handler.pc = "policy-objects"
        => /\ handler.submitted =
                 [i \in DOMAIN platform.workshop_objects |->
                     extra_object(platform.workshop_objects[i])]
                 \o [j \in DOMAIN platform.environment_objects |->
                        extra_object(platform.environment_objects[j])]
           /\ ~\E i \in DOMAIN platform.workshop_objects,
                  j \in DOMAIN platform.environment_objects :
                     extra_object(platform.workshop_objects[i])
                         = extra_object(platform.environment_objects[j])

C35_ValidationsBeforeCreation ==
    /\ [][(handler.pc \in {"workshops", "preflight", "tls", "pull"}
           /\ handler' # handler)
             => cluster' = cluster /\ handler'.created = {}]_vars
    /\ []((handler.pc = "failed" /\ error_kind(handler.error) = "temporary")
             => handler.created = {})

\* A pass that passed the TLS secret and ended over the malformed pull secret.
C35_Witness ==
    /\ handler.pc = "failed"
    /\ handler.error = "pull-invalid"
    /\ portal.ingress_secret
    /\ platform.tls = "valid"
    /\ handler.created = {}
    /\ handler.ingress_protocol = "https"

\* C36: the pre-flight of a portal with W workshop references looks at the
\* portal namespace and at W environment names, one for each position of the
\* list; a complete pass has emitted exactly the environments of those names,
\* and its plan has one entry for each reference, in the order of the list.
C36_OneEnvironmentPerReference ==
    LET W == Len(portal.workshops)
        emitted == {o.name : o \in {x \in handler.created : x.kind = "WorkshopEnvironment"}}
    IN /\ Cardinality(required_namespaces) = W + 1
       /\ (handler.pc = "failed" /\ handler.error = "namespace-exists")
             => handler.collision.name \in required_namespaces
       /\ handler.pc \in {"tls", "pull", "namespace"}
             => ~\E o \in cluster : /\ o.kind = "Namespace"
                                    /\ o.name \in {portal_namespace}
                                            \cup {environment_name(i) : i \in 1..W}
       /\ handler.pc = "done"
             => /\ required_namespaces = {portal_namespace} \cup emitted
                /\ Len(handler.environments) = W
                /\ \A i \in 1..W : handler.environments[i] = environment_name(i)
                /\ \A i, j \in 1..W :
                      handler.environments[i] = handler.environments[j] => i = j

\* A complete pass of a portal that names the same workshop twice.
C36_Witness ==
    /\ handler.pc = "done"
    /\ Len(portal.workshops) = 2
    /\ portal.workshops[1] = portal.workshops[2]
    /\ Len(handler.environments) = 2

\* C37: every session that is not STOPPED is counted as available or as
\* allocated, and none as both: the active sessions are as many as the
\* available and the allocated ones together.
C37_ActiveIsAvailablePlusAllocated ==
    /\ available_sessions(session_set) \cap allocated_sessions(session_set) = {}
    /\ active_sessions_count(session_set)
          = available_sessions_count(session_set) + allocated_sessions_count(session_set)

\* C38: an operation on a session that is STOPPED already, or that has no
\* application, and that leaves it STOPPED, ends without an exception: so
\* mark_as_stopped can be repeated.
C38_StoppedCanBeRepeated ==
    [][((session_set[1].state = STOPPED \/ ~session_set[1].application)
        /\ ~raised
        /\ session_set'[1].state = STOPPED)
          => ~raised' /\ ~session_set'[1].application]_vars

\* C39: the token of a session, once set, is never changed: not by a later
\* mark_as_pending with another token or with none, nor by any other
\* operation of the session.
C39_TokenIsWrittenOnce ==
    [][\A s \in DOMAIN session_set :
          session_set[s].token # NoToken
             => session_set'[s].token = session_set[s].token]_vars

\* A reserved session that was reserved again without a token: it keeps the
\* token and has the whole duration.
C39_Witness ==
    /\ session_set[1].state = STARTING
    /\ session_set[1].token # NoToken
    /\ session_set[1].owner # NoUser
    /\ session_set[1].owner # session_set[1].token
    /\ environment.duration # 0
    /\ session_set[1].expires = session_set[1].started + environment.duration

\* C40: a request by a caller outside the robots group, or for an environment
\* that does not exist, or with no index URL (under either name of the
\* parameter), or with an invalid email, is answered with an error, and
\* creates no account and assigns or changes no session.
C40_RefusedRequestChangesNothing ==
    [][\A r \in Requests :
          (/\ (\/ ~r.robot
               \/ r.name # "lab-w01"
               \/ (r.index_url = "" /\ r.redirect_url = "")
               \/ r.email = <<"ada", "example.test">>)
           /\ environment_request(r))
             => /\ handler'.response \in {"403 Session requests not permitted",
                                          "403 Environment does not exist",
                                          "400 Need redirect URL for workshop index",
                                          "400 Invalid email address provided"}
                /\ handler'.session = NoSession
                /\ platform'.accounts = platform.accounts
                /\ session_set' = session_set
                /\ pending' = pending
                /\ environment' = environment]_vars

\* A request with an invalid email was refused after another had been served.
C40_Witness ==
    /\ handler.response = "400 Invalid email address provided"
    /\ Cardinality(platform.accounts) = 1
    /\ \E s \in DOMAIN session_set : session_set[s].owner # NoUser
====
